---- MODULE Spec2Model ----
(***************************************************************************)
(* A model of the randomized database generator: the manipulator pipeline  *)
(* (manipulators.py), the column-name mutation engine (column_names.py)    *)
(* and the schema and row assembly (database_generator.py).                *)
(*                                                                         *)
(* Text is a sequence of characters.  A float is the IEEE 754 double that  *)
(* Python computes with.  A probability p in [0.0, 1.0] is the integer     *)
(* 100*p, and an outcome of random.random() in [0.0, 1.0) is an integer in *)
(* 0..99, so that "random.random() < p" is "r < p".                        *)
(***************************************************************************)
EXTENDS Integers, Sequences, FiniteSets, TLC

VARIABLES
    manipulators,   \* ManipulatorApplier.manipulators
    value,          \* the raw value handed to apply_manipulations
    sql_type,       \* the category handed to apply_manipulations
    outcome,        \* what the apply_manipulations call did
    trash,          \* what the methods of TrashManipulator do
    config,         \* CONFIG.COLUMN_NAME
    column_names,   \* the candidate names of the generator whose column is named
    base_name,      \* base_name of get_random_column_name
    gate,           \* whether the modification gate of get_random_column_name passed
    num_modifications, \* num_modifications of _modify_column_name
    modified_name,  \* modified_name of _modify_column_name; the returned name at the end
    edits,          \* the modification types applied so far, in order
    npc,            \* where get_random_column_name stands: "start", "modify", "done"
    pc,             \* where the table build stands
    num_columns,    \* num_columns of generate_table_schema
    column_definitions, \* column_definitions of generate_table_schema
    used_names,     \* used_names of generate_table_schema
    generator,      \* generator of the column slot being named
    col_name,       \* col_name of the column slot being named
    counter,        \* counter of the column slot last named
    retries,        \* passes of the while loop made for the column slot last named
    draws,          \* the random calls made for the column slot last named, in order
    row_data,       \* row_data of generate_row_data
    col_index,      \* position in column_definitions of the loop of generate_row_data
    raised,         \* the cells whose generator raised, each as <<call, cell>>
    invoked,        \* the columns whose generator this row called, in the order called
    rows_done,      \* calls of generate_row_data that returned
    rows,           \* the rows create_table handed to the sink, in order
    registered,     \* the entries of AVAILABLE_GENERATORS that are not commented out
    generator_log,  \* ResultHandler.generator_log
    num_tables,     \* num_tables of generate_database
    table_index,    \* i of the loop of generate_database
    generator_weights, \* CONFIG.GENERATOR_WEIGHTS
    picked          \* what the get_random_generator_weighted call did

manipVars == <<manipulators, value, sql_type, outcome, trash>>
nameVars ==
    <<config, column_names, base_name, gate, num_modifications, modified_name, edits, npc>>

schemaVars ==
    <<pc, num_columns, column_definitions, used_names, generator, col_name, counter, retries,
      draws>>
schemaVarsButPc ==
    <<num_columns, column_definitions, used_names, generator, col_name, counter, retries,
      draws>>
rowVars == <<row_data, col_index, raised, invoked, rows_done>>
dbVars == <<registered, generator_log, num_tables, table_index, rows>>
selectorVars == <<generator_weights, picked>>
tableVars == <<schemaVars, rowVars, dbVars, selectorVars>>

vars == <<manipVars, nameVars, tableVars>>

-----------------------------------------------------------------------------
(* Bounds of the model *)

\* longest manipulator list attached to one applier
MaxManipulators == 2
\* passes of the row loop of create_table followed on one schema
MaxRowCalls == 2

-----------------------------------------------------------------------------
(* Characters and values *)

ascii_lowercase ==
    <<"a","b","c","d","e","f","g","h","i","j","k","l","m",
      "n","o","p","q","r","s","t","u","v","w","x","y","z">>
ascii_uppercase ==
    <<"A","B","C","D","E","F","G","H","I","J","K","L","M",
      "N","O","P","Q","R","S","T","U","V","W","X","Y","Z">>

Range(s) == {s[i] : i \in DOMAIN s}

Max(a, b) == IF a >= b THEN a ELSE b

index_in(seq, c) == CHOOSE i \in DOMAIN seq : seq[i] = c

\* an apply that returns the text as passed
str_unchanged(s) == s

-----------------------------------------------------------------------------
(* The case mappings of str.upper() and str.lower(), for every character of *)
(* Unicode 14.0.0, the version of the unicodedata of Python 3.11.  A        *)
(* printable character of Basic Latin or the Latin-1 Supplement is written  *)
(* as itself; the grave accent, the soft hyphen and every other character   *)
(* are written by the code point: "U+0151" is the one character o with      *)
(* double acute.                                                            *)

\* the characters beyond Basic Latin that str.upper() gives one other
\* character for, and that character, place by place
upper_chars ==
    <<"µ", "à", "á", "â", "ã", "ä", "å", "æ",
      "ç", "è", "é", "ê", "ë", "ì", "í", "î",
      "ï", "ð", "ñ", "ò", "ó", "ô", "õ", "ö",
      "ø", "ù", "ú", "û", "ü", "ý", "þ", "ÿ",
      "U+0101", "U+0103", "U+0105", "U+0107", "U+0109", "U+010B", "U+010D", "U+010F",
      "U+0111", "U+0113", "U+0115", "U+0117", "U+0119", "U+011B", "U+011D", "U+011F",
      "U+0121", "U+0123", "U+0125", "U+0127", "U+0129", "U+012B", "U+012D", "U+012F",
      "U+0131", "U+0133", "U+0135", "U+0137", "U+013A", "U+013C", "U+013E", "U+0140",
      "U+0142", "U+0144", "U+0146", "U+0148", "U+014B", "U+014D", "U+014F", "U+0151",
      "U+0153", "U+0155", "U+0157", "U+0159", "U+015B", "U+015D", "U+015F", "U+0161",
      "U+0163", "U+0165", "U+0167", "U+0169", "U+016B", "U+016D", "U+016F", "U+0171",
      "U+0173", "U+0175", "U+0177", "U+017A", "U+017C", "U+017E", "U+017F", "U+0180",
      "U+0183", "U+0185", "U+0188", "U+018C", "U+0192", "U+0195", "U+0199", "U+019A",
      "U+019E", "U+01A1", "U+01A3", "U+01A5", "U+01A8", "U+01AD", "U+01B0", "U+01B4",
      "U+01B6", "U+01B9", "U+01BD", "U+01BF", "U+01C5", "U+01C6", "U+01C8", "U+01C9",
      "U+01CB", "U+01CC", "U+01CE", "U+01D0", "U+01D2", "U+01D4", "U+01D6", "U+01D8",
      "U+01DA", "U+01DC", "U+01DD", "U+01DF", "U+01E1", "U+01E3", "U+01E5", "U+01E7",
      "U+01E9", "U+01EB", "U+01ED", "U+01EF", "U+01F2", "U+01F3", "U+01F5", "U+01F9",
      "U+01FB", "U+01FD", "U+01FF", "U+0201", "U+0203", "U+0205", "U+0207", "U+0209",
      "U+020B", "U+020D", "U+020F", "U+0211", "U+0213", "U+0215", "U+0217", "U+0219",
      "U+021B", "U+021D", "U+021F", "U+0223", "U+0225", "U+0227", "U+0229", "U+022B",
      "U+022D", "U+022F", "U+0231", "U+0233", "U+023C", "U+023F", "U+0240", "U+0242",
      "U+0247", "U+0249", "U+024B", "U+024D", "U+024F", "U+0250", "U+0251", "U+0252",
      "U+0253", "U+0254", "U+0256", "U+0257", "U+0259", "U+025B", "U+025C", "U+0260",
      "U+0261", "U+0263", "U+0265", "U+0266", "U+0268", "U+0269", "U+026A", "U+026B",
      "U+026C", "U+026F", "U+0271", "U+0272", "U+0275", "U+027D", "U+0280", "U+0282",
      "U+0283", "U+0287", "U+0288", "U+0289", "U+028A", "U+028B", "U+028C", "U+0292",
      "U+029D", "U+029E", "U+0345", "U+0371", "U+0373", "U+0377", "U+037B", "U+037C",
      "U+037D", "U+03AC", "U+03AD", "U+03AE", "U+03AF", "U+03B1", "U+03B2", "U+03B3",
      "U+03B4", "U+03B5", "U+03B6", "U+03B7", "U+03B8", "U+03B9", "U+03BA", "U+03BB",
      "U+03BC", "U+03BD", "U+03BE", "U+03BF", "U+03C0", "U+03C1", "U+03C2", "U+03C3",
      "U+03C4", "U+03C5", "U+03C6", "U+03C7", "U+03C8", "U+03C9", "U+03CA", "U+03CB",
      "U+03CC", "U+03CD", "U+03CE", "U+03D0", "U+03D1", "U+03D5", "U+03D6", "U+03D7",
      "U+03D9", "U+03DB", "U+03DD", "U+03DF", "U+03E1", "U+03E3", "U+03E5", "U+03E7",
      "U+03E9", "U+03EB", "U+03ED", "U+03EF", "U+03F0", "U+03F1", "U+03F2", "U+03F3",
      "U+03F5", "U+03F8", "U+03FB", "U+0430", "U+0431", "U+0432", "U+0433", "U+0434",
      "U+0435", "U+0436", "U+0437", "U+0438", "U+0439", "U+043A", "U+043B", "U+043C",
      "U+043D", "U+043E", "U+043F", "U+0440", "U+0441", "U+0442", "U+0443", "U+0444",
      "U+0445", "U+0446", "U+0447", "U+0448", "U+0449", "U+044A", "U+044B", "U+044C",
      "U+044D", "U+044E", "U+044F", "U+0450", "U+0451", "U+0452", "U+0453", "U+0454",
      "U+0455", "U+0456", "U+0457", "U+0458", "U+0459", "U+045A", "U+045B", "U+045C",
      "U+045D", "U+045E", "U+045F", "U+0461", "U+0463", "U+0465", "U+0467", "U+0469",
      "U+046B", "U+046D", "U+046F", "U+0471", "U+0473", "U+0475", "U+0477", "U+0479",
      "U+047B", "U+047D", "U+047F", "U+0481", "U+048B", "U+048D", "U+048F", "U+0491",
      "U+0493", "U+0495", "U+0497", "U+0499", "U+049B", "U+049D", "U+049F", "U+04A1",
      "U+04A3", "U+04A5", "U+04A7", "U+04A9", "U+04AB", "U+04AD", "U+04AF", "U+04B1",
      "U+04B3", "U+04B5", "U+04B7", "U+04B9", "U+04BB", "U+04BD", "U+04BF", "U+04C2",
      "U+04C4", "U+04C6", "U+04C8", "U+04CA", "U+04CC", "U+04CE", "U+04CF", "U+04D1",
      "U+04D3", "U+04D5", "U+04D7", "U+04D9", "U+04DB", "U+04DD", "U+04DF", "U+04E1",
      "U+04E3", "U+04E5", "U+04E7", "U+04E9", "U+04EB", "U+04ED", "U+04EF", "U+04F1",
      "U+04F3", "U+04F5", "U+04F7", "U+04F9", "U+04FB", "U+04FD", "U+04FF", "U+0501",
      "U+0503", "U+0505", "U+0507", "U+0509", "U+050B", "U+050D", "U+050F", "U+0511",
      "U+0513", "U+0515", "U+0517", "U+0519", "U+051B", "U+051D", "U+051F", "U+0521",
      "U+0523", "U+0525", "U+0527", "U+0529", "U+052B", "U+052D", "U+052F", "U+0561",
      "U+0562", "U+0563", "U+0564", "U+0565", "U+0566", "U+0567", "U+0568", "U+0569",
      "U+056A", "U+056B", "U+056C", "U+056D", "U+056E", "U+056F", "U+0570", "U+0571",
      "U+0572", "U+0573", "U+0574", "U+0575", "U+0576", "U+0577", "U+0578", "U+0579",
      "U+057A", "U+057B", "U+057C", "U+057D", "U+057E", "U+057F", "U+0580", "U+0581",
      "U+0582", "U+0583", "U+0584", "U+0585", "U+0586", "U+10D0", "U+10D1", "U+10D2",
      "U+10D3", "U+10D4", "U+10D5", "U+10D6", "U+10D7", "U+10D8", "U+10D9", "U+10DA",
      "U+10DB", "U+10DC", "U+10DD", "U+10DE", "U+10DF", "U+10E0", "U+10E1", "U+10E2",
      "U+10E3", "U+10E4", "U+10E5", "U+10E6", "U+10E7", "U+10E8", "U+10E9", "U+10EA",
      "U+10EB", "U+10EC", "U+10ED", "U+10EE", "U+10EF", "U+10F0", "U+10F1", "U+10F2",
      "U+10F3", "U+10F4", "U+10F5", "U+10F6", "U+10F7", "U+10F8", "U+10F9", "U+10FA",
      "U+10FD", "U+10FE", "U+10FF", "U+13F8", "U+13F9", "U+13FA", "U+13FB", "U+13FC",
      "U+13FD", "U+1C80", "U+1C81", "U+1C82", "U+1C83", "U+1C84", "U+1C85", "U+1C86",
      "U+1C87", "U+1C88", "U+1D79", "U+1D7D", "U+1D8E", "U+1E01", "U+1E03", "U+1E05",
      "U+1E07", "U+1E09", "U+1E0B", "U+1E0D", "U+1E0F", "U+1E11", "U+1E13", "U+1E15",
      "U+1E17", "U+1E19", "U+1E1B", "U+1E1D", "U+1E1F", "U+1E21", "U+1E23", "U+1E25",
      "U+1E27", "U+1E29", "U+1E2B", "U+1E2D", "U+1E2F", "U+1E31", "U+1E33", "U+1E35",
      "U+1E37", "U+1E39", "U+1E3B", "U+1E3D", "U+1E3F", "U+1E41", "U+1E43", "U+1E45",
      "U+1E47", "U+1E49", "U+1E4B", "U+1E4D", "U+1E4F", "U+1E51", "U+1E53", "U+1E55",
      "U+1E57", "U+1E59", "U+1E5B", "U+1E5D", "U+1E5F", "U+1E61", "U+1E63", "U+1E65",
      "U+1E67", "U+1E69", "U+1E6B", "U+1E6D", "U+1E6F", "U+1E71", "U+1E73", "U+1E75",
      "U+1E77", "U+1E79", "U+1E7B", "U+1E7D", "U+1E7F", "U+1E81", "U+1E83", "U+1E85",
      "U+1E87", "U+1E89", "U+1E8B", "U+1E8D", "U+1E8F", "U+1E91", "U+1E93", "U+1E95",
      "U+1E9B", "U+1EA1", "U+1EA3", "U+1EA5", "U+1EA7", "U+1EA9", "U+1EAB", "U+1EAD",
      "U+1EAF", "U+1EB1", "U+1EB3", "U+1EB5", "U+1EB7", "U+1EB9", "U+1EBB", "U+1EBD",
      "U+1EBF", "U+1EC1", "U+1EC3", "U+1EC5", "U+1EC7", "U+1EC9", "U+1ECB", "U+1ECD",
      "U+1ECF", "U+1ED1", "U+1ED3", "U+1ED5", "U+1ED7", "U+1ED9", "U+1EDB", "U+1EDD",
      "U+1EDF", "U+1EE1", "U+1EE3", "U+1EE5", "U+1EE7", "U+1EE9", "U+1EEB", "U+1EED",
      "U+1EEF", "U+1EF1", "U+1EF3", "U+1EF5", "U+1EF7", "U+1EF9", "U+1EFB", "U+1EFD",
      "U+1EFF", "U+1F00", "U+1F01", "U+1F02", "U+1F03", "U+1F04", "U+1F05", "U+1F06",
      "U+1F07", "U+1F10", "U+1F11", "U+1F12", "U+1F13", "U+1F14", "U+1F15", "U+1F20",
      "U+1F21", "U+1F22", "U+1F23", "U+1F24", "U+1F25", "U+1F26", "U+1F27", "U+1F30",
      "U+1F31", "U+1F32", "U+1F33", "U+1F34", "U+1F35", "U+1F36", "U+1F37", "U+1F40",
      "U+1F41", "U+1F42", "U+1F43", "U+1F44", "U+1F45", "U+1F51", "U+1F53", "U+1F55",
      "U+1F57", "U+1F60", "U+1F61", "U+1F62", "U+1F63", "U+1F64", "U+1F65", "U+1F66",
      "U+1F67", "U+1F70", "U+1F71", "U+1F72", "U+1F73", "U+1F74", "U+1F75", "U+1F76",
      "U+1F77", "U+1F78", "U+1F79", "U+1F7A", "U+1F7B", "U+1F7C", "U+1F7D", "U+1FB0",
      "U+1FB1", "U+1FBE", "U+1FD0", "U+1FD1", "U+1FE0", "U+1FE1", "U+1FE5", "U+214E",
      "U+2170", "U+2171", "U+2172", "U+2173", "U+2174", "U+2175", "U+2176", "U+2177",
      "U+2178", "U+2179", "U+217A", "U+217B", "U+217C", "U+217D", "U+217E", "U+217F",
      "U+2184", "U+24D0", "U+24D1", "U+24D2", "U+24D3", "U+24D4", "U+24D5", "U+24D6",
      "U+24D7", "U+24D8", "U+24D9", "U+24DA", "U+24DB", "U+24DC", "U+24DD", "U+24DE",
      "U+24DF", "U+24E0", "U+24E1", "U+24E2", "U+24E3", "U+24E4", "U+24E5", "U+24E6",
      "U+24E7", "U+24E8", "U+24E9", "U+2C30", "U+2C31", "U+2C32", "U+2C33", "U+2C34",
      "U+2C35", "U+2C36", "U+2C37", "U+2C38", "U+2C39", "U+2C3A", "U+2C3B", "U+2C3C",
      "U+2C3D", "U+2C3E", "U+2C3F", "U+2C40", "U+2C41", "U+2C42", "U+2C43", "U+2C44",
      "U+2C45", "U+2C46", "U+2C47", "U+2C48", "U+2C49", "U+2C4A", "U+2C4B", "U+2C4C",
      "U+2C4D", "U+2C4E", "U+2C4F", "U+2C50", "U+2C51", "U+2C52", "U+2C53", "U+2C54",
      "U+2C55", "U+2C56", "U+2C57", "U+2C58", "U+2C59", "U+2C5A", "U+2C5B", "U+2C5C",
      "U+2C5D", "U+2C5E", "U+2C5F", "U+2C61", "U+2C65", "U+2C66", "U+2C68", "U+2C6A",
      "U+2C6C", "U+2C73", "U+2C76", "U+2C81", "U+2C83", "U+2C85", "U+2C87", "U+2C89",
      "U+2C8B", "U+2C8D", "U+2C8F", "U+2C91", "U+2C93", "U+2C95", "U+2C97", "U+2C99",
      "U+2C9B", "U+2C9D", "U+2C9F", "U+2CA1", "U+2CA3", "U+2CA5", "U+2CA7", "U+2CA9",
      "U+2CAB", "U+2CAD", "U+2CAF", "U+2CB1", "U+2CB3", "U+2CB5", "U+2CB7", "U+2CB9",
      "U+2CBB", "U+2CBD", "U+2CBF", "U+2CC1", "U+2CC3", "U+2CC5", "U+2CC7", "U+2CC9",
      "U+2CCB", "U+2CCD", "U+2CCF", "U+2CD1", "U+2CD3", "U+2CD5", "U+2CD7", "U+2CD9",
      "U+2CDB", "U+2CDD", "U+2CDF", "U+2CE1", "U+2CE3", "U+2CEC", "U+2CEE", "U+2CF3",
      "U+2D00", "U+2D01", "U+2D02", "U+2D03", "U+2D04", "U+2D05", "U+2D06", "U+2D07",
      "U+2D08", "U+2D09", "U+2D0A", "U+2D0B", "U+2D0C", "U+2D0D", "U+2D0E", "U+2D0F",
      "U+2D10", "U+2D11", "U+2D12", "U+2D13", "U+2D14", "U+2D15", "U+2D16", "U+2D17",
      "U+2D18", "U+2D19", "U+2D1A", "U+2D1B", "U+2D1C", "U+2D1D", "U+2D1E", "U+2D1F",
      "U+2D20", "U+2D21", "U+2D22", "U+2D23", "U+2D24", "U+2D25", "U+2D27", "U+2D2D",
      "U+A641", "U+A643", "U+A645", "U+A647", "U+A649", "U+A64B", "U+A64D", "U+A64F",
      "U+A651", "U+A653", "U+A655", "U+A657", "U+A659", "U+A65B", "U+A65D", "U+A65F",
      "U+A661", "U+A663", "U+A665", "U+A667", "U+A669", "U+A66B", "U+A66D", "U+A681",
      "U+A683", "U+A685", "U+A687", "U+A689", "U+A68B", "U+A68D", "U+A68F", "U+A691",
      "U+A693", "U+A695", "U+A697", "U+A699", "U+A69B", "U+A723", "U+A725", "U+A727",
      "U+A729", "U+A72B", "U+A72D", "U+A72F", "U+A733", "U+A735", "U+A737", "U+A739",
      "U+A73B", "U+A73D", "U+A73F", "U+A741", "U+A743", "U+A745", "U+A747", "U+A749",
      "U+A74B", "U+A74D", "U+A74F", "U+A751", "U+A753", "U+A755", "U+A757", "U+A759",
      "U+A75B", "U+A75D", "U+A75F", "U+A761", "U+A763", "U+A765", "U+A767", "U+A769",
      "U+A76B", "U+A76D", "U+A76F", "U+A77A", "U+A77C", "U+A77F", "U+A781", "U+A783",
      "U+A785", "U+A787", "U+A78C", "U+A791", "U+A793", "U+A794", "U+A797", "U+A799",
      "U+A79B", "U+A79D", "U+A79F", "U+A7A1", "U+A7A3", "U+A7A5", "U+A7A7", "U+A7A9",
      "U+A7B5", "U+A7B7", "U+A7B9", "U+A7BB", "U+A7BD", "U+A7BF", "U+A7C1", "U+A7C3",
      "U+A7C8", "U+A7CA", "U+A7D1", "U+A7D7", "U+A7D9", "U+A7F6", "U+AB53", "U+AB70",
      "U+AB71", "U+AB72", "U+AB73", "U+AB74", "U+AB75", "U+AB76", "U+AB77", "U+AB78",
      "U+AB79", "U+AB7A", "U+AB7B", "U+AB7C", "U+AB7D", "U+AB7E", "U+AB7F", "U+AB80",
      "U+AB81", "U+AB82", "U+AB83", "U+AB84", "U+AB85", "U+AB86", "U+AB87", "U+AB88",
      "U+AB89", "U+AB8A", "U+AB8B", "U+AB8C", "U+AB8D", "U+AB8E", "U+AB8F", "U+AB90",
      "U+AB91", "U+AB92", "U+AB93", "U+AB94", "U+AB95", "U+AB96", "U+AB97", "U+AB98",
      "U+AB99", "U+AB9A", "U+AB9B", "U+AB9C", "U+AB9D", "U+AB9E", "U+AB9F", "U+ABA0",
      "U+ABA1", "U+ABA2", "U+ABA3", "U+ABA4", "U+ABA5", "U+ABA6", "U+ABA7", "U+ABA8",
      "U+ABA9", "U+ABAA", "U+ABAB", "U+ABAC", "U+ABAD", "U+ABAE", "U+ABAF", "U+ABB0",
      "U+ABB1", "U+ABB2", "U+ABB3", "U+ABB4", "U+ABB5", "U+ABB6", "U+ABB7", "U+ABB8",
      "U+ABB9", "U+ABBA", "U+ABBB", "U+ABBC", "U+ABBD", "U+ABBE", "U+ABBF", "U+FF41",
      "U+FF42", "U+FF43", "U+FF44", "U+FF45", "U+FF46", "U+FF47", "U+FF48", "U+FF49",
      "U+FF4A", "U+FF4B", "U+FF4C", "U+FF4D", "U+FF4E", "U+FF4F", "U+FF50", "U+FF51",
      "U+FF52", "U+FF53", "U+FF54", "U+FF55", "U+FF56", "U+FF57", "U+FF58", "U+FF59",
      "U+FF5A", "U+10428", "U+10429", "U+1042A", "U+1042B", "U+1042C", "U+1042D", "U+1042E",
      "U+1042F", "U+10430", "U+10431", "U+10432", "U+10433", "U+10434", "U+10435", "U+10436",
      "U+10437", "U+10438", "U+10439", "U+1043A", "U+1043B", "U+1043C", "U+1043D", "U+1043E",
      "U+1043F", "U+10440", "U+10441", "U+10442", "U+10443", "U+10444", "U+10445", "U+10446",
      "U+10447", "U+10448", "U+10449", "U+1044A", "U+1044B", "U+1044C", "U+1044D", "U+1044E",
      "U+1044F", "U+104D8", "U+104D9", "U+104DA", "U+104DB", "U+104DC", "U+104DD", "U+104DE",
      "U+104DF", "U+104E0", "U+104E1", "U+104E2", "U+104E3", "U+104E4", "U+104E5", "U+104E6",
      "U+104E7", "U+104E8", "U+104E9", "U+104EA", "U+104EB", "U+104EC", "U+104ED", "U+104EE",
      "U+104EF", "U+104F0", "U+104F1", "U+104F2", "U+104F3", "U+104F4", "U+104F5", "U+104F6",
      "U+104F7", "U+104F8", "U+104F9", "U+104FA", "U+104FB", "U+10597", "U+10598", "U+10599",
      "U+1059A", "U+1059B", "U+1059C", "U+1059D", "U+1059E", "U+1059F", "U+105A0", "U+105A1",
      "U+105A3", "U+105A4", "U+105A5", "U+105A6", "U+105A7", "U+105A8", "U+105A9", "U+105AA",
      "U+105AB", "U+105AC", "U+105AD", "U+105AE", "U+105AF", "U+105B0", "U+105B1", "U+105B3",
      "U+105B4", "U+105B5", "U+105B6", "U+105B7", "U+105B8", "U+105B9", "U+105BB", "U+105BC",
      "U+10CC0", "U+10CC1", "U+10CC2", "U+10CC3", "U+10CC4", "U+10CC5", "U+10CC6", "U+10CC7",
      "U+10CC8", "U+10CC9", "U+10CCA", "U+10CCB", "U+10CCC", "U+10CCD", "U+10CCE", "U+10CCF",
      "U+10CD0", "U+10CD1", "U+10CD2", "U+10CD3", "U+10CD4", "U+10CD5", "U+10CD6", "U+10CD7",
      "U+10CD8", "U+10CD9", "U+10CDA", "U+10CDB", "U+10CDC", "U+10CDD", "U+10CDE", "U+10CDF",
      "U+10CE0", "U+10CE1", "U+10CE2", "U+10CE3", "U+10CE4", "U+10CE5", "U+10CE6", "U+10CE7",
      "U+10CE8", "U+10CE9", "U+10CEA", "U+10CEB", "U+10CEC", "U+10CED", "U+10CEE", "U+10CEF",
      "U+10CF0", "U+10CF1", "U+10CF2", "U+118C0", "U+118C1", "U+118C2", "U+118C3", "U+118C4",
      "U+118C5", "U+118C6", "U+118C7", "U+118C8", "U+118C9", "U+118CA", "U+118CB", "U+118CC",
      "U+118CD", "U+118CE", "U+118CF", "U+118D0", "U+118D1", "U+118D2", "U+118D3", "U+118D4",
      "U+118D5", "U+118D6", "U+118D7", "U+118D8", "U+118D9", "U+118DA", "U+118DB", "U+118DC",
      "U+118DD", "U+118DE", "U+118DF", "U+16E60", "U+16E61", "U+16E62", "U+16E63", "U+16E64",
      "U+16E65", "U+16E66", "U+16E67", "U+16E68", "U+16E69", "U+16E6A", "U+16E6B", "U+16E6C",
      "U+16E6D", "U+16E6E", "U+16E6F", "U+16E70", "U+16E71", "U+16E72", "U+16E73", "U+16E74",
      "U+16E75", "U+16E76", "U+16E77", "U+16E78", "U+16E79", "U+16E7A", "U+16E7B", "U+16E7C",
      "U+16E7D", "U+16E7E", "U+16E7F", "U+1E922", "U+1E923", "U+1E924", "U+1E925", "U+1E926",
      "U+1E927", "U+1E928", "U+1E929", "U+1E92A", "U+1E92B", "U+1E92C", "U+1E92D", "U+1E92E",
      "U+1E92F", "U+1E930", "U+1E931", "U+1E932", "U+1E933", "U+1E934", "U+1E935", "U+1E936",
      "U+1E937", "U+1E938", "U+1E939", "U+1E93A", "U+1E93B", "U+1E93C", "U+1E93D", "U+1E93E",
      "U+1E93F", "U+1E940", "U+1E941", "U+1E942", "U+1E943">>

upper_single ==
    <<"U+039C", "À", "Á", "Â", "Ã", "Ä", "Å", "Æ",
      "Ç", "È", "É", "Ê", "Ë", "Ì", "Í", "Î",
      "Ï", "Ð", "Ñ", "Ò", "Ó", "Ô", "Õ", "Ö",
      "Ø", "Ù", "Ú", "Û", "Ü", "Ý", "Þ", "U+0178",
      "U+0100", "U+0102", "U+0104", "U+0106", "U+0108", "U+010A", "U+010C", "U+010E",
      "U+0110", "U+0112", "U+0114", "U+0116", "U+0118", "U+011A", "U+011C", "U+011E",
      "U+0120", "U+0122", "U+0124", "U+0126", "U+0128", "U+012A", "U+012C", "U+012E",
      "I", "U+0132", "U+0134", "U+0136", "U+0139", "U+013B", "U+013D", "U+013F",
      "U+0141", "U+0143", "U+0145", "U+0147", "U+014A", "U+014C", "U+014E", "U+0150",
      "U+0152", "U+0154", "U+0156", "U+0158", "U+015A", "U+015C", "U+015E", "U+0160",
      "U+0162", "U+0164", "U+0166", "U+0168", "U+016A", "U+016C", "U+016E", "U+0170",
      "U+0172", "U+0174", "U+0176", "U+0179", "U+017B", "U+017D", "S", "U+0243",
      "U+0182", "U+0184", "U+0187", "U+018B", "U+0191", "U+01F6", "U+0198", "U+023D",
      "U+0220", "U+01A0", "U+01A2", "U+01A4", "U+01A7", "U+01AC", "U+01AF", "U+01B3",
      "U+01B5", "U+01B8", "U+01BC", "U+01F7", "U+01C4", "U+01C4", "U+01C7", "U+01C7",
      "U+01CA", "U+01CA", "U+01CD", "U+01CF", "U+01D1", "U+01D3", "U+01D5", "U+01D7",
      "U+01D9", "U+01DB", "U+018E", "U+01DE", "U+01E0", "U+01E2", "U+01E4", "U+01E6",
      "U+01E8", "U+01EA", "U+01EC", "U+01EE", "U+01F1", "U+01F1", "U+01F4", "U+01F8",
      "U+01FA", "U+01FC", "U+01FE", "U+0200", "U+0202", "U+0204", "U+0206", "U+0208",
      "U+020A", "U+020C", "U+020E", "U+0210", "U+0212", "U+0214", "U+0216", "U+0218",
      "U+021A", "U+021C", "U+021E", "U+0222", "U+0224", "U+0226", "U+0228", "U+022A",
      "U+022C", "U+022E", "U+0230", "U+0232", "U+023B", "U+2C7E", "U+2C7F", "U+0241",
      "U+0246", "U+0248", "U+024A", "U+024C", "U+024E", "U+2C6F", "U+2C6D", "U+2C70",
      "U+0181", "U+0186", "U+0189", "U+018A", "U+018F", "U+0190", "U+A7AB", "U+0193",
      "U+A7AC", "U+0194", "U+A78D", "U+A7AA", "U+0197", "U+0196", "U+A7AE", "U+2C62",
      "U+A7AD", "U+019C", "U+2C6E", "U+019D", "U+019F", "U+2C64", "U+01A6", "U+A7C5",
      "U+01A9", "U+A7B1", "U+01AE", "U+0244", "U+01B1", "U+01B2", "U+0245", "U+01B7",
      "U+A7B2", "U+A7B0", "U+0399", "U+0370", "U+0372", "U+0376", "U+03FD", "U+03FE",
      "U+03FF", "U+0386", "U+0388", "U+0389", "U+038A", "U+0391", "U+0392", "U+0393",
      "U+0394", "U+0395", "U+0396", "U+0397", "U+0398", "U+0399", "U+039A", "U+039B",
      "U+039C", "U+039D", "U+039E", "U+039F", "U+03A0", "U+03A1", "U+03A3", "U+03A3",
      "U+03A4", "U+03A5", "U+03A6", "U+03A7", "U+03A8", "U+03A9", "U+03AA", "U+03AB",
      "U+038C", "U+038E", "U+038F", "U+0392", "U+0398", "U+03A6", "U+03A0", "U+03CF",
      "U+03D8", "U+03DA", "U+03DC", "U+03DE", "U+03E0", "U+03E2", "U+03E4", "U+03E6",
      "U+03E8", "U+03EA", "U+03EC", "U+03EE", "U+039A", "U+03A1", "U+03F9", "U+037F",
      "U+0395", "U+03F7", "U+03FA", "U+0410", "U+0411", "U+0412", "U+0413", "U+0414",
      "U+0415", "U+0416", "U+0417", "U+0418", "U+0419", "U+041A", "U+041B", "U+041C",
      "U+041D", "U+041E", "U+041F", "U+0420", "U+0421", "U+0422", "U+0423", "U+0424",
      "U+0425", "U+0426", "U+0427", "U+0428", "U+0429", "U+042A", "U+042B", "U+042C",
      "U+042D", "U+042E", "U+042F", "U+0400", "U+0401", "U+0402", "U+0403", "U+0404",
      "U+0405", "U+0406", "U+0407", "U+0408", "U+0409", "U+040A", "U+040B", "U+040C",
      "U+040D", "U+040E", "U+040F", "U+0460", "U+0462", "U+0464", "U+0466", "U+0468",
      "U+046A", "U+046C", "U+046E", "U+0470", "U+0472", "U+0474", "U+0476", "U+0478",
      "U+047A", "U+047C", "U+047E", "U+0480", "U+048A", "U+048C", "U+048E", "U+0490",
      "U+0492", "U+0494", "U+0496", "U+0498", "U+049A", "U+049C", "U+049E", "U+04A0",
      "U+04A2", "U+04A4", "U+04A6", "U+04A8", "U+04AA", "U+04AC", "U+04AE", "U+04B0",
      "U+04B2", "U+04B4", "U+04B6", "U+04B8", "U+04BA", "U+04BC", "U+04BE", "U+04C1",
      "U+04C3", "U+04C5", "U+04C7", "U+04C9", "U+04CB", "U+04CD", "U+04C0", "U+04D0",
      "U+04D2", "U+04D4", "U+04D6", "U+04D8", "U+04DA", "U+04DC", "U+04DE", "U+04E0",
      "U+04E2", "U+04E4", "U+04E6", "U+04E8", "U+04EA", "U+04EC", "U+04EE", "U+04F0",
      "U+04F2", "U+04F4", "U+04F6", "U+04F8", "U+04FA", "U+04FC", "U+04FE", "U+0500",
      "U+0502", "U+0504", "U+0506", "U+0508", "U+050A", "U+050C", "U+050E", "U+0510",
      "U+0512", "U+0514", "U+0516", "U+0518", "U+051A", "U+051C", "U+051E", "U+0520",
      "U+0522", "U+0524", "U+0526", "U+0528", "U+052A", "U+052C", "U+052E", "U+0531",
      "U+0532", "U+0533", "U+0534", "U+0535", "U+0536", "U+0537", "U+0538", "U+0539",
      "U+053A", "U+053B", "U+053C", "U+053D", "U+053E", "U+053F", "U+0540", "U+0541",
      "U+0542", "U+0543", "U+0544", "U+0545", "U+0546", "U+0547", "U+0548", "U+0549",
      "U+054A", "U+054B", "U+054C", "U+054D", "U+054E", "U+054F", "U+0550", "U+0551",
      "U+0552", "U+0553", "U+0554", "U+0555", "U+0556", "U+1C90", "U+1C91", "U+1C92",
      "U+1C93", "U+1C94", "U+1C95", "U+1C96", "U+1C97", "U+1C98", "U+1C99", "U+1C9A",
      "U+1C9B", "U+1C9C", "U+1C9D", "U+1C9E", "U+1C9F", "U+1CA0", "U+1CA1", "U+1CA2",
      "U+1CA3", "U+1CA4", "U+1CA5", "U+1CA6", "U+1CA7", "U+1CA8", "U+1CA9", "U+1CAA",
      "U+1CAB", "U+1CAC", "U+1CAD", "U+1CAE", "U+1CAF", "U+1CB0", "U+1CB1", "U+1CB2",
      "U+1CB3", "U+1CB4", "U+1CB5", "U+1CB6", "U+1CB7", "U+1CB8", "U+1CB9", "U+1CBA",
      "U+1CBD", "U+1CBE", "U+1CBF", "U+13F0", "U+13F1", "U+13F2", "U+13F3", "U+13F4",
      "U+13F5", "U+0412", "U+0414", "U+041E", "U+0421", "U+0422", "U+0422", "U+042A",
      "U+0462", "U+A64A", "U+A77D", "U+2C63", "U+A7C6", "U+1E00", "U+1E02", "U+1E04",
      "U+1E06", "U+1E08", "U+1E0A", "U+1E0C", "U+1E0E", "U+1E10", "U+1E12", "U+1E14",
      "U+1E16", "U+1E18", "U+1E1A", "U+1E1C", "U+1E1E", "U+1E20", "U+1E22", "U+1E24",
      "U+1E26", "U+1E28", "U+1E2A", "U+1E2C", "U+1E2E", "U+1E30", "U+1E32", "U+1E34",
      "U+1E36", "U+1E38", "U+1E3A", "U+1E3C", "U+1E3E", "U+1E40", "U+1E42", "U+1E44",
      "U+1E46", "U+1E48", "U+1E4A", "U+1E4C", "U+1E4E", "U+1E50", "U+1E52", "U+1E54",
      "U+1E56", "U+1E58", "U+1E5A", "U+1E5C", "U+1E5E", "U+1E60", "U+1E62", "U+1E64",
      "U+1E66", "U+1E68", "U+1E6A", "U+1E6C", "U+1E6E", "U+1E70", "U+1E72", "U+1E74",
      "U+1E76", "U+1E78", "U+1E7A", "U+1E7C", "U+1E7E", "U+1E80", "U+1E82", "U+1E84",
      "U+1E86", "U+1E88", "U+1E8A", "U+1E8C", "U+1E8E", "U+1E90", "U+1E92", "U+1E94",
      "U+1E60", "U+1EA0", "U+1EA2", "U+1EA4", "U+1EA6", "U+1EA8", "U+1EAA", "U+1EAC",
      "U+1EAE", "U+1EB0", "U+1EB2", "U+1EB4", "U+1EB6", "U+1EB8", "U+1EBA", "U+1EBC",
      "U+1EBE", "U+1EC0", "U+1EC2", "U+1EC4", "U+1EC6", "U+1EC8", "U+1ECA", "U+1ECC",
      "U+1ECE", "U+1ED0", "U+1ED2", "U+1ED4", "U+1ED6", "U+1ED8", "U+1EDA", "U+1EDC",
      "U+1EDE", "U+1EE0", "U+1EE2", "U+1EE4", "U+1EE6", "U+1EE8", "U+1EEA", "U+1EEC",
      "U+1EEE", "U+1EF0", "U+1EF2", "U+1EF4", "U+1EF6", "U+1EF8", "U+1EFA", "U+1EFC",
      "U+1EFE", "U+1F08", "U+1F09", "U+1F0A", "U+1F0B", "U+1F0C", "U+1F0D", "U+1F0E",
      "U+1F0F", "U+1F18", "U+1F19", "U+1F1A", "U+1F1B", "U+1F1C", "U+1F1D", "U+1F28",
      "U+1F29", "U+1F2A", "U+1F2B", "U+1F2C", "U+1F2D", "U+1F2E", "U+1F2F", "U+1F38",
      "U+1F39", "U+1F3A", "U+1F3B", "U+1F3C", "U+1F3D", "U+1F3E", "U+1F3F", "U+1F48",
      "U+1F49", "U+1F4A", "U+1F4B", "U+1F4C", "U+1F4D", "U+1F59", "U+1F5B", "U+1F5D",
      "U+1F5F", "U+1F68", "U+1F69", "U+1F6A", "U+1F6B", "U+1F6C", "U+1F6D", "U+1F6E",
      "U+1F6F", "U+1FBA", "U+1FBB", "U+1FC8", "U+1FC9", "U+1FCA", "U+1FCB", "U+1FDA",
      "U+1FDB", "U+1FF8", "U+1FF9", "U+1FEA", "U+1FEB", "U+1FFA", "U+1FFB", "U+1FB8",
      "U+1FB9", "U+0399", "U+1FD8", "U+1FD9", "U+1FE8", "U+1FE9", "U+1FEC", "U+2132",
      "U+2160", "U+2161", "U+2162", "U+2163", "U+2164", "U+2165", "U+2166", "U+2167",
      "U+2168", "U+2169", "U+216A", "U+216B", "U+216C", "U+216D", "U+216E", "U+216F",
      "U+2183", "U+24B6", "U+24B7", "U+24B8", "U+24B9", "U+24BA", "U+24BB", "U+24BC",
      "U+24BD", "U+24BE", "U+24BF", "U+24C0", "U+24C1", "U+24C2", "U+24C3", "U+24C4",
      "U+24C5", "U+24C6", "U+24C7", "U+24C8", "U+24C9", "U+24CA", "U+24CB", "U+24CC",
      "U+24CD", "U+24CE", "U+24CF", "U+2C00", "U+2C01", "U+2C02", "U+2C03", "U+2C04",
      "U+2C05", "U+2C06", "U+2C07", "U+2C08", "U+2C09", "U+2C0A", "U+2C0B", "U+2C0C",
      "U+2C0D", "U+2C0E", "U+2C0F", "U+2C10", "U+2C11", "U+2C12", "U+2C13", "U+2C14",
      "U+2C15", "U+2C16", "U+2C17", "U+2C18", "U+2C19", "U+2C1A", "U+2C1B", "U+2C1C",
      "U+2C1D", "U+2C1E", "U+2C1F", "U+2C20", "U+2C21", "U+2C22", "U+2C23", "U+2C24",
      "U+2C25", "U+2C26", "U+2C27", "U+2C28", "U+2C29", "U+2C2A", "U+2C2B", "U+2C2C",
      "U+2C2D", "U+2C2E", "U+2C2F", "U+2C60", "U+023A", "U+023E", "U+2C67", "U+2C69",
      "U+2C6B", "U+2C72", "U+2C75", "U+2C80", "U+2C82", "U+2C84", "U+2C86", "U+2C88",
      "U+2C8A", "U+2C8C", "U+2C8E", "U+2C90", "U+2C92", "U+2C94", "U+2C96", "U+2C98",
      "U+2C9A", "U+2C9C", "U+2C9E", "U+2CA0", "U+2CA2", "U+2CA4", "U+2CA6", "U+2CA8",
      "U+2CAA", "U+2CAC", "U+2CAE", "U+2CB0", "U+2CB2", "U+2CB4", "U+2CB6", "U+2CB8",
      "U+2CBA", "U+2CBC", "U+2CBE", "U+2CC0", "U+2CC2", "U+2CC4", "U+2CC6", "U+2CC8",
      "U+2CCA", "U+2CCC", "U+2CCE", "U+2CD0", "U+2CD2", "U+2CD4", "U+2CD6", "U+2CD8",
      "U+2CDA", "U+2CDC", "U+2CDE", "U+2CE0", "U+2CE2", "U+2CEB", "U+2CED", "U+2CF2",
      "U+10A0", "U+10A1", "U+10A2", "U+10A3", "U+10A4", "U+10A5", "U+10A6", "U+10A7",
      "U+10A8", "U+10A9", "U+10AA", "U+10AB", "U+10AC", "U+10AD", "U+10AE", "U+10AF",
      "U+10B0", "U+10B1", "U+10B2", "U+10B3", "U+10B4", "U+10B5", "U+10B6", "U+10B7",
      "U+10B8", "U+10B9", "U+10BA", "U+10BB", "U+10BC", "U+10BD", "U+10BE", "U+10BF",
      "U+10C0", "U+10C1", "U+10C2", "U+10C3", "U+10C4", "U+10C5", "U+10C7", "U+10CD",
      "U+A640", "U+A642", "U+A644", "U+A646", "U+A648", "U+A64A", "U+A64C", "U+A64E",
      "U+A650", "U+A652", "U+A654", "U+A656", "U+A658", "U+A65A", "U+A65C", "U+A65E",
      "U+A660", "U+A662", "U+A664", "U+A666", "U+A668", "U+A66A", "U+A66C", "U+A680",
      "U+A682", "U+A684", "U+A686", "U+A688", "U+A68A", "U+A68C", "U+A68E", "U+A690",
      "U+A692", "U+A694", "U+A696", "U+A698", "U+A69A", "U+A722", "U+A724", "U+A726",
      "U+A728", "U+A72A", "U+A72C", "U+A72E", "U+A732", "U+A734", "U+A736", "U+A738",
      "U+A73A", "U+A73C", "U+A73E", "U+A740", "U+A742", "U+A744", "U+A746", "U+A748",
      "U+A74A", "U+A74C", "U+A74E", "U+A750", "U+A752", "U+A754", "U+A756", "U+A758",
      "U+A75A", "U+A75C", "U+A75E", "U+A760", "U+A762", "U+A764", "U+A766", "U+A768",
      "U+A76A", "U+A76C", "U+A76E", "U+A779", "U+A77B", "U+A77E", "U+A780", "U+A782",
      "U+A784", "U+A786", "U+A78B", "U+A790", "U+A792", "U+A7C4", "U+A796", "U+A798",
      "U+A79A", "U+A79C", "U+A79E", "U+A7A0", "U+A7A2", "U+A7A4", "U+A7A6", "U+A7A8",
      "U+A7B4", "U+A7B6", "U+A7B8", "U+A7BA", "U+A7BC", "U+A7BE", "U+A7C0", "U+A7C2",
      "U+A7C7", "U+A7C9", "U+A7D0", "U+A7D6", "U+A7D8", "U+A7F5", "U+A7B3", "U+13A0",
      "U+13A1", "U+13A2", "U+13A3", "U+13A4", "U+13A5", "U+13A6", "U+13A7", "U+13A8",
      "U+13A9", "U+13AA", "U+13AB", "U+13AC", "U+13AD", "U+13AE", "U+13AF", "U+13B0",
      "U+13B1", "U+13B2", "U+13B3", "U+13B4", "U+13B5", "U+13B6", "U+13B7", "U+13B8",
      "U+13B9", "U+13BA", "U+13BB", "U+13BC", "U+13BD", "U+13BE", "U+13BF", "U+13C0",
      "U+13C1", "U+13C2", "U+13C3", "U+13C4", "U+13C5", "U+13C6", "U+13C7", "U+13C8",
      "U+13C9", "U+13CA", "U+13CB", "U+13CC", "U+13CD", "U+13CE", "U+13CF", "U+13D0",
      "U+13D1", "U+13D2", "U+13D3", "U+13D4", "U+13D5", "U+13D6", "U+13D7", "U+13D8",
      "U+13D9", "U+13DA", "U+13DB", "U+13DC", "U+13DD", "U+13DE", "U+13DF", "U+13E0",
      "U+13E1", "U+13E2", "U+13E3", "U+13E4", "U+13E5", "U+13E6", "U+13E7", "U+13E8",
      "U+13E9", "U+13EA", "U+13EB", "U+13EC", "U+13ED", "U+13EE", "U+13EF", "U+FF21",
      "U+FF22", "U+FF23", "U+FF24", "U+FF25", "U+FF26", "U+FF27", "U+FF28", "U+FF29",
      "U+FF2A", "U+FF2B", "U+FF2C", "U+FF2D", "U+FF2E", "U+FF2F", "U+FF30", "U+FF31",
      "U+FF32", "U+FF33", "U+FF34", "U+FF35", "U+FF36", "U+FF37", "U+FF38", "U+FF39",
      "U+FF3A", "U+10400", "U+10401", "U+10402", "U+10403", "U+10404", "U+10405", "U+10406",
      "U+10407", "U+10408", "U+10409", "U+1040A", "U+1040B", "U+1040C", "U+1040D", "U+1040E",
      "U+1040F", "U+10410", "U+10411", "U+10412", "U+10413", "U+10414", "U+10415", "U+10416",
      "U+10417", "U+10418", "U+10419", "U+1041A", "U+1041B", "U+1041C", "U+1041D", "U+1041E",
      "U+1041F", "U+10420", "U+10421", "U+10422", "U+10423", "U+10424", "U+10425", "U+10426",
      "U+10427", "U+104B0", "U+104B1", "U+104B2", "U+104B3", "U+104B4", "U+104B5", "U+104B6",
      "U+104B7", "U+104B8", "U+104B9", "U+104BA", "U+104BB", "U+104BC", "U+104BD", "U+104BE",
      "U+104BF", "U+104C0", "U+104C1", "U+104C2", "U+104C3", "U+104C4", "U+104C5", "U+104C6",
      "U+104C7", "U+104C8", "U+104C9", "U+104CA", "U+104CB", "U+104CC", "U+104CD", "U+104CE",
      "U+104CF", "U+104D0", "U+104D1", "U+104D2", "U+104D3", "U+10570", "U+10571", "U+10572",
      "U+10573", "U+10574", "U+10575", "U+10576", "U+10577", "U+10578", "U+10579", "U+1057A",
      "U+1057C", "U+1057D", "U+1057E", "U+1057F", "U+10580", "U+10581", "U+10582", "U+10583",
      "U+10584", "U+10585", "U+10586", "U+10587", "U+10588", "U+10589", "U+1058A", "U+1058C",
      "U+1058D", "U+1058E", "U+1058F", "U+10590", "U+10591", "U+10592", "U+10594", "U+10595",
      "U+10C80", "U+10C81", "U+10C82", "U+10C83", "U+10C84", "U+10C85", "U+10C86", "U+10C87",
      "U+10C88", "U+10C89", "U+10C8A", "U+10C8B", "U+10C8C", "U+10C8D", "U+10C8E", "U+10C8F",
      "U+10C90", "U+10C91", "U+10C92", "U+10C93", "U+10C94", "U+10C95", "U+10C96", "U+10C97",
      "U+10C98", "U+10C99", "U+10C9A", "U+10C9B", "U+10C9C", "U+10C9D", "U+10C9E", "U+10C9F",
      "U+10CA0", "U+10CA1", "U+10CA2", "U+10CA3", "U+10CA4", "U+10CA5", "U+10CA6", "U+10CA7",
      "U+10CA8", "U+10CA9", "U+10CAA", "U+10CAB", "U+10CAC", "U+10CAD", "U+10CAE", "U+10CAF",
      "U+10CB0", "U+10CB1", "U+10CB2", "U+118A0", "U+118A1", "U+118A2", "U+118A3", "U+118A4",
      "U+118A5", "U+118A6", "U+118A7", "U+118A8", "U+118A9", "U+118AA", "U+118AB", "U+118AC",
      "U+118AD", "U+118AE", "U+118AF", "U+118B0", "U+118B1", "U+118B2", "U+118B3", "U+118B4",
      "U+118B5", "U+118B6", "U+118B7", "U+118B8", "U+118B9", "U+118BA", "U+118BB", "U+118BC",
      "U+118BD", "U+118BE", "U+118BF", "U+16E40", "U+16E41", "U+16E42", "U+16E43", "U+16E44",
      "U+16E45", "U+16E46", "U+16E47", "U+16E48", "U+16E49", "U+16E4A", "U+16E4B", "U+16E4C",
      "U+16E4D", "U+16E4E", "U+16E4F", "U+16E50", "U+16E51", "U+16E52", "U+16E53", "U+16E54",
      "U+16E55", "U+16E56", "U+16E57", "U+16E58", "U+16E59", "U+16E5A", "U+16E5B", "U+16E5C",
      "U+16E5D", "U+16E5E", "U+16E5F", "U+1E900", "U+1E901", "U+1E902", "U+1E903", "U+1E904",
      "U+1E905", "U+1E906", "U+1E907", "U+1E908", "U+1E909", "U+1E90A", "U+1E90B", "U+1E90C",
      "U+1E90D", "U+1E90E", "U+1E90F", "U+1E910", "U+1E911", "U+1E912", "U+1E913", "U+1E914",
      "U+1E915", "U+1E916", "U+1E917", "U+1E918", "U+1E919", "U+1E91A", "U+1E91B", "U+1E91C",
      "U+1E91D", "U+1E91E", "U+1E91F", "U+1E920", "U+1E921">>

\* the characters that str.upper() gives more than one character for, and
\* that text, place by place: the sharp s gives "SS"
upper_full_chars ==
    <<"ß", "U+0149", "U+01F0", "U+0390", "U+03B0", "U+0587", "U+1E96", "U+1E97",
      "U+1E98", "U+1E99", "U+1E9A", "U+1F50", "U+1F52", "U+1F54", "U+1F56", "U+1F80",
      "U+1F81", "U+1F82", "U+1F83", "U+1F84", "U+1F85", "U+1F86", "U+1F87", "U+1F88",
      "U+1F89", "U+1F8A", "U+1F8B", "U+1F8C", "U+1F8D", "U+1F8E", "U+1F8F", "U+1F90",
      "U+1F91", "U+1F92", "U+1F93", "U+1F94", "U+1F95", "U+1F96", "U+1F97", "U+1F98",
      "U+1F99", "U+1F9A", "U+1F9B", "U+1F9C", "U+1F9D", "U+1F9E", "U+1F9F", "U+1FA0",
      "U+1FA1", "U+1FA2", "U+1FA3", "U+1FA4", "U+1FA5", "U+1FA6", "U+1FA7", "U+1FA8",
      "U+1FA9", "U+1FAA", "U+1FAB", "U+1FAC", "U+1FAD", "U+1FAE", "U+1FAF", "U+1FB2",
      "U+1FB3", "U+1FB4", "U+1FB6", "U+1FB7", "U+1FBC", "U+1FC2", "U+1FC3", "U+1FC4",
      "U+1FC6", "U+1FC7", "U+1FCC", "U+1FD2", "U+1FD3", "U+1FD6", "U+1FD7", "U+1FE2",
      "U+1FE3", "U+1FE4", "U+1FE6", "U+1FE7", "U+1FF2", "U+1FF3", "U+1FF4", "U+1FF6",
      "U+1FF7", "U+1FFC", "U+FB00", "U+FB01", "U+FB02", "U+FB03", "U+FB04", "U+FB05",
      "U+FB06", "U+FB13", "U+FB14", "U+FB15", "U+FB16", "U+FB17">>

upper_full_texts ==
    <<<<"S", "S">>, <<"U+02BC", "N">>, <<"J", "U+030C">>, <<"U+0399", "U+0308", "U+0301">>,
      <<"U+03A5", "U+0308", "U+0301">>, <<"U+0535", "U+0552">>, <<"H", "U+0331">>, <<"T", "U+0308">>,
      <<"W", "U+030A">>, <<"Y", "U+030A">>, <<"A", "U+02BE">>, <<"U+03A5", "U+0313">>,
      <<"U+03A5", "U+0313", "U+0300">>, <<"U+03A5", "U+0313", "U+0301">>, <<"U+03A5", "U+0313", "U+0342">>, <<"U+1F08", "U+0399">>,
      <<"U+1F09", "U+0399">>, <<"U+1F0A", "U+0399">>, <<"U+1F0B", "U+0399">>, <<"U+1F0C", "U+0399">>,
      <<"U+1F0D", "U+0399">>, <<"U+1F0E", "U+0399">>, <<"U+1F0F", "U+0399">>, <<"U+1F08", "U+0399">>,
      <<"U+1F09", "U+0399">>, <<"U+1F0A", "U+0399">>, <<"U+1F0B", "U+0399">>, <<"U+1F0C", "U+0399">>,
      <<"U+1F0D", "U+0399">>, <<"U+1F0E", "U+0399">>, <<"U+1F0F", "U+0399">>, <<"U+1F28", "U+0399">>,
      <<"U+1F29", "U+0399">>, <<"U+1F2A", "U+0399">>, <<"U+1F2B", "U+0399">>, <<"U+1F2C", "U+0399">>,
      <<"U+1F2D", "U+0399">>, <<"U+1F2E", "U+0399">>, <<"U+1F2F", "U+0399">>, <<"U+1F28", "U+0399">>,
      <<"U+1F29", "U+0399">>, <<"U+1F2A", "U+0399">>, <<"U+1F2B", "U+0399">>, <<"U+1F2C", "U+0399">>,
      <<"U+1F2D", "U+0399">>, <<"U+1F2E", "U+0399">>, <<"U+1F2F", "U+0399">>, <<"U+1F68", "U+0399">>,
      <<"U+1F69", "U+0399">>, <<"U+1F6A", "U+0399">>, <<"U+1F6B", "U+0399">>, <<"U+1F6C", "U+0399">>,
      <<"U+1F6D", "U+0399">>, <<"U+1F6E", "U+0399">>, <<"U+1F6F", "U+0399">>, <<"U+1F68", "U+0399">>,
      <<"U+1F69", "U+0399">>, <<"U+1F6A", "U+0399">>, <<"U+1F6B", "U+0399">>, <<"U+1F6C", "U+0399">>,
      <<"U+1F6D", "U+0399">>, <<"U+1F6E", "U+0399">>, <<"U+1F6F", "U+0399">>, <<"U+1FBA", "U+0399">>,
      <<"U+0391", "U+0399">>, <<"U+0386", "U+0399">>, <<"U+0391", "U+0342">>, <<"U+0391", "U+0342", "U+0399">>,
      <<"U+0391", "U+0399">>, <<"U+1FCA", "U+0399">>, <<"U+0397", "U+0399">>, <<"U+0389", "U+0399">>,
      <<"U+0397", "U+0342">>, <<"U+0397", "U+0342", "U+0399">>, <<"U+0397", "U+0399">>, <<"U+0399", "U+0308", "U+0300">>,
      <<"U+0399", "U+0308", "U+0301">>, <<"U+0399", "U+0342">>, <<"U+0399", "U+0308", "U+0342">>, <<"U+03A5", "U+0308", "U+0300">>,
      <<"U+03A5", "U+0308", "U+0301">>, <<"U+03A1", "U+0313">>, <<"U+03A5", "U+0342">>, <<"U+03A5", "U+0308", "U+0342">>,
      <<"U+1FFA", "U+0399">>, <<"U+03A9", "U+0399">>, <<"U+038F", "U+0399">>, <<"U+03A9", "U+0342">>,
      <<"U+03A9", "U+0342", "U+0399">>, <<"U+03A9", "U+0399">>, <<"F", "F">>, <<"F", "I">>,
      <<"F", "L">>, <<"F", "F", "I">>, <<"F", "F", "L">>, <<"S", "T">>,
      <<"S", "T">>, <<"U+0544", "U+0546">>, <<"U+0544", "U+0535">>, <<"U+0544", "U+053B">>,
      <<"U+054E", "U+0546">>, <<"U+0544", "U+053D">>>>

\* the characters beyond Basic Latin that str.lower() gives one other
\* character for, and that character, place by place; the capital sigma
\* gives the small sigma here
lower_chars ==
    <<"À", "Á", "Â", "Ã", "Ä", "Å", "Æ", "Ç",
      "È", "É", "Ê", "Ë", "Ì", "Í", "Î", "Ï",
      "Ð", "Ñ", "Ò", "Ó", "Ô", "Õ", "Ö", "Ø",
      "Ù", "Ú", "Û", "Ü", "Ý", "Þ", "U+0100", "U+0102",
      "U+0104", "U+0106", "U+0108", "U+010A", "U+010C", "U+010E", "U+0110", "U+0112",
      "U+0114", "U+0116", "U+0118", "U+011A", "U+011C", "U+011E", "U+0120", "U+0122",
      "U+0124", "U+0126", "U+0128", "U+012A", "U+012C", "U+012E", "U+0132", "U+0134",
      "U+0136", "U+0139", "U+013B", "U+013D", "U+013F", "U+0141", "U+0143", "U+0145",
      "U+0147", "U+014A", "U+014C", "U+014E", "U+0150", "U+0152", "U+0154", "U+0156",
      "U+0158", "U+015A", "U+015C", "U+015E", "U+0160", "U+0162", "U+0164", "U+0166",
      "U+0168", "U+016A", "U+016C", "U+016E", "U+0170", "U+0172", "U+0174", "U+0176",
      "U+0178", "U+0179", "U+017B", "U+017D", "U+0181", "U+0182", "U+0184", "U+0186",
      "U+0187", "U+0189", "U+018A", "U+018B", "U+018E", "U+018F", "U+0190", "U+0191",
      "U+0193", "U+0194", "U+0196", "U+0197", "U+0198", "U+019C", "U+019D", "U+019F",
      "U+01A0", "U+01A2", "U+01A4", "U+01A6", "U+01A7", "U+01A9", "U+01AC", "U+01AE",
      "U+01AF", "U+01B1", "U+01B2", "U+01B3", "U+01B5", "U+01B7", "U+01B8", "U+01BC",
      "U+01C4", "U+01C5", "U+01C7", "U+01C8", "U+01CA", "U+01CB", "U+01CD", "U+01CF",
      "U+01D1", "U+01D3", "U+01D5", "U+01D7", "U+01D9", "U+01DB", "U+01DE", "U+01E0",
      "U+01E2", "U+01E4", "U+01E6", "U+01E8", "U+01EA", "U+01EC", "U+01EE", "U+01F1",
      "U+01F2", "U+01F4", "U+01F6", "U+01F7", "U+01F8", "U+01FA", "U+01FC", "U+01FE",
      "U+0200", "U+0202", "U+0204", "U+0206", "U+0208", "U+020A", "U+020C", "U+020E",
      "U+0210", "U+0212", "U+0214", "U+0216", "U+0218", "U+021A", "U+021C", "U+021E",
      "U+0220", "U+0222", "U+0224", "U+0226", "U+0228", "U+022A", "U+022C", "U+022E",
      "U+0230", "U+0232", "U+023A", "U+023B", "U+023D", "U+023E", "U+0241", "U+0243",
      "U+0244", "U+0245", "U+0246", "U+0248", "U+024A", "U+024C", "U+024E", "U+0370",
      "U+0372", "U+0376", "U+037F", "U+0386", "U+0388", "U+0389", "U+038A", "U+038C",
      "U+038E", "U+038F", "U+0391", "U+0392", "U+0393", "U+0394", "U+0395", "U+0396",
      "U+0397", "U+0398", "U+0399", "U+039A", "U+039B", "U+039C", "U+039D", "U+039E",
      "U+039F", "U+03A0", "U+03A1", "U+03A3", "U+03A4", "U+03A5", "U+03A6", "U+03A7",
      "U+03A8", "U+03A9", "U+03AA", "U+03AB", "U+03CF", "U+03D8", "U+03DA", "U+03DC",
      "U+03DE", "U+03E0", "U+03E2", "U+03E4", "U+03E6", "U+03E8", "U+03EA", "U+03EC",
      "U+03EE", "U+03F4", "U+03F7", "U+03F9", "U+03FA", "U+03FD", "U+03FE", "U+03FF",
      "U+0400", "U+0401", "U+0402", "U+0403", "U+0404", "U+0405", "U+0406", "U+0407",
      "U+0408", "U+0409", "U+040A", "U+040B", "U+040C", "U+040D", "U+040E", "U+040F",
      "U+0410", "U+0411", "U+0412", "U+0413", "U+0414", "U+0415", "U+0416", "U+0417",
      "U+0418", "U+0419", "U+041A", "U+041B", "U+041C", "U+041D", "U+041E", "U+041F",
      "U+0420", "U+0421", "U+0422", "U+0423", "U+0424", "U+0425", "U+0426", "U+0427",
      "U+0428", "U+0429", "U+042A", "U+042B", "U+042C", "U+042D", "U+042E", "U+042F",
      "U+0460", "U+0462", "U+0464", "U+0466", "U+0468", "U+046A", "U+046C", "U+046E",
      "U+0470", "U+0472", "U+0474", "U+0476", "U+0478", "U+047A", "U+047C", "U+047E",
      "U+0480", "U+048A", "U+048C", "U+048E", "U+0490", "U+0492", "U+0494", "U+0496",
      "U+0498", "U+049A", "U+049C", "U+049E", "U+04A0", "U+04A2", "U+04A4", "U+04A6",
      "U+04A8", "U+04AA", "U+04AC", "U+04AE", "U+04B0", "U+04B2", "U+04B4", "U+04B6",
      "U+04B8", "U+04BA", "U+04BC", "U+04BE", "U+04C0", "U+04C1", "U+04C3", "U+04C5",
      "U+04C7", "U+04C9", "U+04CB", "U+04CD", "U+04D0", "U+04D2", "U+04D4", "U+04D6",
      "U+04D8", "U+04DA", "U+04DC", "U+04DE", "U+04E0", "U+04E2", "U+04E4", "U+04E6",
      "U+04E8", "U+04EA", "U+04EC", "U+04EE", "U+04F0", "U+04F2", "U+04F4", "U+04F6",
      "U+04F8", "U+04FA", "U+04FC", "U+04FE", "U+0500", "U+0502", "U+0504", "U+0506",
      "U+0508", "U+050A", "U+050C", "U+050E", "U+0510", "U+0512", "U+0514", "U+0516",
      "U+0518", "U+051A", "U+051C", "U+051E", "U+0520", "U+0522", "U+0524", "U+0526",
      "U+0528", "U+052A", "U+052C", "U+052E", "U+0531", "U+0532", "U+0533", "U+0534",
      "U+0535", "U+0536", "U+0537", "U+0538", "U+0539", "U+053A", "U+053B", "U+053C",
      "U+053D", "U+053E", "U+053F", "U+0540", "U+0541", "U+0542", "U+0543", "U+0544",
      "U+0545", "U+0546", "U+0547", "U+0548", "U+0549", "U+054A", "U+054B", "U+054C",
      "U+054D", "U+054E", "U+054F", "U+0550", "U+0551", "U+0552", "U+0553", "U+0554",
      "U+0555", "U+0556", "U+10A0", "U+10A1", "U+10A2", "U+10A3", "U+10A4", "U+10A5",
      "U+10A6", "U+10A7", "U+10A8", "U+10A9", "U+10AA", "U+10AB", "U+10AC", "U+10AD",
      "U+10AE", "U+10AF", "U+10B0", "U+10B1", "U+10B2", "U+10B3", "U+10B4", "U+10B5",
      "U+10B6", "U+10B7", "U+10B8", "U+10B9", "U+10BA", "U+10BB", "U+10BC", "U+10BD",
      "U+10BE", "U+10BF", "U+10C0", "U+10C1", "U+10C2", "U+10C3", "U+10C4", "U+10C5",
      "U+10C7", "U+10CD", "U+13A0", "U+13A1", "U+13A2", "U+13A3", "U+13A4", "U+13A5",
      "U+13A6", "U+13A7", "U+13A8", "U+13A9", "U+13AA", "U+13AB", "U+13AC", "U+13AD",
      "U+13AE", "U+13AF", "U+13B0", "U+13B1", "U+13B2", "U+13B3", "U+13B4", "U+13B5",
      "U+13B6", "U+13B7", "U+13B8", "U+13B9", "U+13BA", "U+13BB", "U+13BC", "U+13BD",
      "U+13BE", "U+13BF", "U+13C0", "U+13C1", "U+13C2", "U+13C3", "U+13C4", "U+13C5",
      "U+13C6", "U+13C7", "U+13C8", "U+13C9", "U+13CA", "U+13CB", "U+13CC", "U+13CD",
      "U+13CE", "U+13CF", "U+13D0", "U+13D1", "U+13D2", "U+13D3", "U+13D4", "U+13D5",
      "U+13D6", "U+13D7", "U+13D8", "U+13D9", "U+13DA", "U+13DB", "U+13DC", "U+13DD",
      "U+13DE", "U+13DF", "U+13E0", "U+13E1", "U+13E2", "U+13E3", "U+13E4", "U+13E5",
      "U+13E6", "U+13E7", "U+13E8", "U+13E9", "U+13EA", "U+13EB", "U+13EC", "U+13ED",
      "U+13EE", "U+13EF", "U+13F0", "U+13F1", "U+13F2", "U+13F3", "U+13F4", "U+13F5",
      "U+1C90", "U+1C91", "U+1C92", "U+1C93", "U+1C94", "U+1C95", "U+1C96", "U+1C97",
      "U+1C98", "U+1C99", "U+1C9A", "U+1C9B", "U+1C9C", "U+1C9D", "U+1C9E", "U+1C9F",
      "U+1CA0", "U+1CA1", "U+1CA2", "U+1CA3", "U+1CA4", "U+1CA5", "U+1CA6", "U+1CA7",
      "U+1CA8", "U+1CA9", "U+1CAA", "U+1CAB", "U+1CAC", "U+1CAD", "U+1CAE", "U+1CAF",
      "U+1CB0", "U+1CB1", "U+1CB2", "U+1CB3", "U+1CB4", "U+1CB5", "U+1CB6", "U+1CB7",
      "U+1CB8", "U+1CB9", "U+1CBA", "U+1CBD", "U+1CBE", "U+1CBF", "U+1E00", "U+1E02",
      "U+1E04", "U+1E06", "U+1E08", "U+1E0A", "U+1E0C", "U+1E0E", "U+1E10", "U+1E12",
      "U+1E14", "U+1E16", "U+1E18", "U+1E1A", "U+1E1C", "U+1E1E", "U+1E20", "U+1E22",
      "U+1E24", "U+1E26", "U+1E28", "U+1E2A", "U+1E2C", "U+1E2E", "U+1E30", "U+1E32",
      "U+1E34", "U+1E36", "U+1E38", "U+1E3A", "U+1E3C", "U+1E3E", "U+1E40", "U+1E42",
      "U+1E44", "U+1E46", "U+1E48", "U+1E4A", "U+1E4C", "U+1E4E", "U+1E50", "U+1E52",
      "U+1E54", "U+1E56", "U+1E58", "U+1E5A", "U+1E5C", "U+1E5E", "U+1E60", "U+1E62",
      "U+1E64", "U+1E66", "U+1E68", "U+1E6A", "U+1E6C", "U+1E6E", "U+1E70", "U+1E72",
      "U+1E74", "U+1E76", "U+1E78", "U+1E7A", "U+1E7C", "U+1E7E", "U+1E80", "U+1E82",
      "U+1E84", "U+1E86", "U+1E88", "U+1E8A", "U+1E8C", "U+1E8E", "U+1E90", "U+1E92",
      "U+1E94", "U+1E9E", "U+1EA0", "U+1EA2", "U+1EA4", "U+1EA6", "U+1EA8", "U+1EAA",
      "U+1EAC", "U+1EAE", "U+1EB0", "U+1EB2", "U+1EB4", "U+1EB6", "U+1EB8", "U+1EBA",
      "U+1EBC", "U+1EBE", "U+1EC0", "U+1EC2", "U+1EC4", "U+1EC6", "U+1EC8", "U+1ECA",
      "U+1ECC", "U+1ECE", "U+1ED0", "U+1ED2", "U+1ED4", "U+1ED6", "U+1ED8", "U+1EDA",
      "U+1EDC", "U+1EDE", "U+1EE0", "U+1EE2", "U+1EE4", "U+1EE6", "U+1EE8", "U+1EEA",
      "U+1EEC", "U+1EEE", "U+1EF0", "U+1EF2", "U+1EF4", "U+1EF6", "U+1EF8", "U+1EFA",
      "U+1EFC", "U+1EFE", "U+1F08", "U+1F09", "U+1F0A", "U+1F0B", "U+1F0C", "U+1F0D",
      "U+1F0E", "U+1F0F", "U+1F18", "U+1F19", "U+1F1A", "U+1F1B", "U+1F1C", "U+1F1D",
      "U+1F28", "U+1F29", "U+1F2A", "U+1F2B", "U+1F2C", "U+1F2D", "U+1F2E", "U+1F2F",
      "U+1F38", "U+1F39", "U+1F3A", "U+1F3B", "U+1F3C", "U+1F3D", "U+1F3E", "U+1F3F",
      "U+1F48", "U+1F49", "U+1F4A", "U+1F4B", "U+1F4C", "U+1F4D", "U+1F59", "U+1F5B",
      "U+1F5D", "U+1F5F", "U+1F68", "U+1F69", "U+1F6A", "U+1F6B", "U+1F6C", "U+1F6D",
      "U+1F6E", "U+1F6F", "U+1F88", "U+1F89", "U+1F8A", "U+1F8B", "U+1F8C", "U+1F8D",
      "U+1F8E", "U+1F8F", "U+1F98", "U+1F99", "U+1F9A", "U+1F9B", "U+1F9C", "U+1F9D",
      "U+1F9E", "U+1F9F", "U+1FA8", "U+1FA9", "U+1FAA", "U+1FAB", "U+1FAC", "U+1FAD",
      "U+1FAE", "U+1FAF", "U+1FB8", "U+1FB9", "U+1FBA", "U+1FBB", "U+1FBC", "U+1FC8",
      "U+1FC9", "U+1FCA", "U+1FCB", "U+1FCC", "U+1FD8", "U+1FD9", "U+1FDA", "U+1FDB",
      "U+1FE8", "U+1FE9", "U+1FEA", "U+1FEB", "U+1FEC", "U+1FF8", "U+1FF9", "U+1FFA",
      "U+1FFB", "U+1FFC", "U+2126", "U+212A", "U+212B", "U+2132", "U+2160", "U+2161",
      "U+2162", "U+2163", "U+2164", "U+2165", "U+2166", "U+2167", "U+2168", "U+2169",
      "U+216A", "U+216B", "U+216C", "U+216D", "U+216E", "U+216F", "U+2183", "U+24B6",
      "U+24B7", "U+24B8", "U+24B9", "U+24BA", "U+24BB", "U+24BC", "U+24BD", "U+24BE",
      "U+24BF", "U+24C0", "U+24C1", "U+24C2", "U+24C3", "U+24C4", "U+24C5", "U+24C6",
      "U+24C7", "U+24C8", "U+24C9", "U+24CA", "U+24CB", "U+24CC", "U+24CD", "U+24CE",
      "U+24CF", "U+2C00", "U+2C01", "U+2C02", "U+2C03", "U+2C04", "U+2C05", "U+2C06",
      "U+2C07", "U+2C08", "U+2C09", "U+2C0A", "U+2C0B", "U+2C0C", "U+2C0D", "U+2C0E",
      "U+2C0F", "U+2C10", "U+2C11", "U+2C12", "U+2C13", "U+2C14", "U+2C15", "U+2C16",
      "U+2C17", "U+2C18", "U+2C19", "U+2C1A", "U+2C1B", "U+2C1C", "U+2C1D", "U+2C1E",
      "U+2C1F", "U+2C20", "U+2C21", "U+2C22", "U+2C23", "U+2C24", "U+2C25", "U+2C26",
      "U+2C27", "U+2C28", "U+2C29", "U+2C2A", "U+2C2B", "U+2C2C", "U+2C2D", "U+2C2E",
      "U+2C2F", "U+2C60", "U+2C62", "U+2C63", "U+2C64", "U+2C67", "U+2C69", "U+2C6B",
      "U+2C6D", "U+2C6E", "U+2C6F", "U+2C70", "U+2C72", "U+2C75", "U+2C7E", "U+2C7F",
      "U+2C80", "U+2C82", "U+2C84", "U+2C86", "U+2C88", "U+2C8A", "U+2C8C", "U+2C8E",
      "U+2C90", "U+2C92", "U+2C94", "U+2C96", "U+2C98", "U+2C9A", "U+2C9C", "U+2C9E",
      "U+2CA0", "U+2CA2", "U+2CA4", "U+2CA6", "U+2CA8", "U+2CAA", "U+2CAC", "U+2CAE",
      "U+2CB0", "U+2CB2", "U+2CB4", "U+2CB6", "U+2CB8", "U+2CBA", "U+2CBC", "U+2CBE",
      "U+2CC0", "U+2CC2", "U+2CC4", "U+2CC6", "U+2CC8", "U+2CCA", "U+2CCC", "U+2CCE",
      "U+2CD0", "U+2CD2", "U+2CD4", "U+2CD6", "U+2CD8", "U+2CDA", "U+2CDC", "U+2CDE",
      "U+2CE0", "U+2CE2", "U+2CEB", "U+2CED", "U+2CF2", "U+A640", "U+A642", "U+A644",
      "U+A646", "U+A648", "U+A64A", "U+A64C", "U+A64E", "U+A650", "U+A652", "U+A654",
      "U+A656", "U+A658", "U+A65A", "U+A65C", "U+A65E", "U+A660", "U+A662", "U+A664",
      "U+A666", "U+A668", "U+A66A", "U+A66C", "U+A680", "U+A682", "U+A684", "U+A686",
      "U+A688", "U+A68A", "U+A68C", "U+A68E", "U+A690", "U+A692", "U+A694", "U+A696",
      "U+A698", "U+A69A", "U+A722", "U+A724", "U+A726", "U+A728", "U+A72A", "U+A72C",
      "U+A72E", "U+A732", "U+A734", "U+A736", "U+A738", "U+A73A", "U+A73C", "U+A73E",
      "U+A740", "U+A742", "U+A744", "U+A746", "U+A748", "U+A74A", "U+A74C", "U+A74E",
      "U+A750", "U+A752", "U+A754", "U+A756", "U+A758", "U+A75A", "U+A75C", "U+A75E",
      "U+A760", "U+A762", "U+A764", "U+A766", "U+A768", "U+A76A", "U+A76C", "U+A76E",
      "U+A779", "U+A77B", "U+A77D", "U+A77E", "U+A780", "U+A782", "U+A784", "U+A786",
      "U+A78B", "U+A78D", "U+A790", "U+A792", "U+A796", "U+A798", "U+A79A", "U+A79C",
      "U+A79E", "U+A7A0", "U+A7A2", "U+A7A4", "U+A7A6", "U+A7A8", "U+A7AA", "U+A7AB",
      "U+A7AC", "U+A7AD", "U+A7AE", "U+A7B0", "U+A7B1", "U+A7B2", "U+A7B3", "U+A7B4",
      "U+A7B6", "U+A7B8", "U+A7BA", "U+A7BC", "U+A7BE", "U+A7C0", "U+A7C2", "U+A7C4",
      "U+A7C5", "U+A7C6", "U+A7C7", "U+A7C9", "U+A7D0", "U+A7D6", "U+A7D8", "U+A7F5",
      "U+FF21", "U+FF22", "U+FF23", "U+FF24", "U+FF25", "U+FF26", "U+FF27", "U+FF28",
      "U+FF29", "U+FF2A", "U+FF2B", "U+FF2C", "U+FF2D", "U+FF2E", "U+FF2F", "U+FF30",
      "U+FF31", "U+FF32", "U+FF33", "U+FF34", "U+FF35", "U+FF36", "U+FF37", "U+FF38",
      "U+FF39", "U+FF3A", "U+10400", "U+10401", "U+10402", "U+10403", "U+10404", "U+10405",
      "U+10406", "U+10407", "U+10408", "U+10409", "U+1040A", "U+1040B", "U+1040C", "U+1040D",
      "U+1040E", "U+1040F", "U+10410", "U+10411", "U+10412", "U+10413", "U+10414", "U+10415",
      "U+10416", "U+10417", "U+10418", "U+10419", "U+1041A", "U+1041B", "U+1041C", "U+1041D",
      "U+1041E", "U+1041F", "U+10420", "U+10421", "U+10422", "U+10423", "U+10424", "U+10425",
      "U+10426", "U+10427", "U+104B0", "U+104B1", "U+104B2", "U+104B3", "U+104B4", "U+104B5",
      "U+104B6", "U+104B7", "U+104B8", "U+104B9", "U+104BA", "U+104BB", "U+104BC", "U+104BD",
      "U+104BE", "U+104BF", "U+104C0", "U+104C1", "U+104C2", "U+104C3", "U+104C4", "U+104C5",
      "U+104C6", "U+104C7", "U+104C8", "U+104C9", "U+104CA", "U+104CB", "U+104CC", "U+104CD",
      "U+104CE", "U+104CF", "U+104D0", "U+104D1", "U+104D2", "U+104D3", "U+10570", "U+10571",
      "U+10572", "U+10573", "U+10574", "U+10575", "U+10576", "U+10577", "U+10578", "U+10579",
      "U+1057A", "U+1057C", "U+1057D", "U+1057E", "U+1057F", "U+10580", "U+10581", "U+10582",
      "U+10583", "U+10584", "U+10585", "U+10586", "U+10587", "U+10588", "U+10589", "U+1058A",
      "U+1058C", "U+1058D", "U+1058E", "U+1058F", "U+10590", "U+10591", "U+10592", "U+10594",
      "U+10595", "U+10C80", "U+10C81", "U+10C82", "U+10C83", "U+10C84", "U+10C85", "U+10C86",
      "U+10C87", "U+10C88", "U+10C89", "U+10C8A", "U+10C8B", "U+10C8C", "U+10C8D", "U+10C8E",
      "U+10C8F", "U+10C90", "U+10C91", "U+10C92", "U+10C93", "U+10C94", "U+10C95", "U+10C96",
      "U+10C97", "U+10C98", "U+10C99", "U+10C9A", "U+10C9B", "U+10C9C", "U+10C9D", "U+10C9E",
      "U+10C9F", "U+10CA0", "U+10CA1", "U+10CA2", "U+10CA3", "U+10CA4", "U+10CA5", "U+10CA6",
      "U+10CA7", "U+10CA8", "U+10CA9", "U+10CAA", "U+10CAB", "U+10CAC", "U+10CAD", "U+10CAE",
      "U+10CAF", "U+10CB0", "U+10CB1", "U+10CB2", "U+118A0", "U+118A1", "U+118A2", "U+118A3",
      "U+118A4", "U+118A5", "U+118A6", "U+118A7", "U+118A8", "U+118A9", "U+118AA", "U+118AB",
      "U+118AC", "U+118AD", "U+118AE", "U+118AF", "U+118B0", "U+118B1", "U+118B2", "U+118B3",
      "U+118B4", "U+118B5", "U+118B6", "U+118B7", "U+118B8", "U+118B9", "U+118BA", "U+118BB",
      "U+118BC", "U+118BD", "U+118BE", "U+118BF", "U+16E40", "U+16E41", "U+16E42", "U+16E43",
      "U+16E44", "U+16E45", "U+16E46", "U+16E47", "U+16E48", "U+16E49", "U+16E4A", "U+16E4B",
      "U+16E4C", "U+16E4D", "U+16E4E", "U+16E4F", "U+16E50", "U+16E51", "U+16E52", "U+16E53",
      "U+16E54", "U+16E55", "U+16E56", "U+16E57", "U+16E58", "U+16E59", "U+16E5A", "U+16E5B",
      "U+16E5C", "U+16E5D", "U+16E5E", "U+16E5F", "U+1E900", "U+1E901", "U+1E902", "U+1E903",
      "U+1E904", "U+1E905", "U+1E906", "U+1E907", "U+1E908", "U+1E909", "U+1E90A", "U+1E90B",
      "U+1E90C", "U+1E90D", "U+1E90E", "U+1E90F", "U+1E910", "U+1E911", "U+1E912", "U+1E913",
      "U+1E914", "U+1E915", "U+1E916", "U+1E917", "U+1E918", "U+1E919", "U+1E91A", "U+1E91B",
      "U+1E91C", "U+1E91D", "U+1E91E", "U+1E91F", "U+1E920", "U+1E921">>

lower_single ==
    <<"à", "á", "â", "ã", "ä", "å", "æ", "ç",
      "è", "é", "ê", "ë", "ì", "í", "î", "ï",
      "ð", "ñ", "ò", "ó", "ô", "õ", "ö", "ø",
      "ù", "ú", "û", "ü", "ý", "þ", "U+0101", "U+0103",
      "U+0105", "U+0107", "U+0109", "U+010B", "U+010D", "U+010F", "U+0111", "U+0113",
      "U+0115", "U+0117", "U+0119", "U+011B", "U+011D", "U+011F", "U+0121", "U+0123",
      "U+0125", "U+0127", "U+0129", "U+012B", "U+012D", "U+012F", "U+0133", "U+0135",
      "U+0137", "U+013A", "U+013C", "U+013E", "U+0140", "U+0142", "U+0144", "U+0146",
      "U+0148", "U+014B", "U+014D", "U+014F", "U+0151", "U+0153", "U+0155", "U+0157",
      "U+0159", "U+015B", "U+015D", "U+015F", "U+0161", "U+0163", "U+0165", "U+0167",
      "U+0169", "U+016B", "U+016D", "U+016F", "U+0171", "U+0173", "U+0175", "U+0177",
      "ÿ", "U+017A", "U+017C", "U+017E", "U+0253", "U+0183", "U+0185", "U+0254",
      "U+0188", "U+0256", "U+0257", "U+018C", "U+01DD", "U+0259", "U+025B", "U+0192",
      "U+0260", "U+0263", "U+0269", "U+0268", "U+0199", "U+026F", "U+0272", "U+0275",
      "U+01A1", "U+01A3", "U+01A5", "U+0280", "U+01A8", "U+0283", "U+01AD", "U+0288",
      "U+01B0", "U+028A", "U+028B", "U+01B4", "U+01B6", "U+0292", "U+01B9", "U+01BD",
      "U+01C6", "U+01C6", "U+01C9", "U+01C9", "U+01CC", "U+01CC", "U+01CE", "U+01D0",
      "U+01D2", "U+01D4", "U+01D6", "U+01D8", "U+01DA", "U+01DC", "U+01DF", "U+01E1",
      "U+01E3", "U+01E5", "U+01E7", "U+01E9", "U+01EB", "U+01ED", "U+01EF", "U+01F3",
      "U+01F3", "U+01F5", "U+0195", "U+01BF", "U+01F9", "U+01FB", "U+01FD", "U+01FF",
      "U+0201", "U+0203", "U+0205", "U+0207", "U+0209", "U+020B", "U+020D", "U+020F",
      "U+0211", "U+0213", "U+0215", "U+0217", "U+0219", "U+021B", "U+021D", "U+021F",
      "U+019E", "U+0223", "U+0225", "U+0227", "U+0229", "U+022B", "U+022D", "U+022F",
      "U+0231", "U+0233", "U+2C65", "U+023C", "U+019A", "U+2C66", "U+0242", "U+0180",
      "U+0289", "U+028C", "U+0247", "U+0249", "U+024B", "U+024D", "U+024F", "U+0371",
      "U+0373", "U+0377", "U+03F3", "U+03AC", "U+03AD", "U+03AE", "U+03AF", "U+03CC",
      "U+03CD", "U+03CE", "U+03B1", "U+03B2", "U+03B3", "U+03B4", "U+03B5", "U+03B6",
      "U+03B7", "U+03B8", "U+03B9", "U+03BA", "U+03BB", "U+03BC", "U+03BD", "U+03BE",
      "U+03BF", "U+03C0", "U+03C1", "U+03C3", "U+03C4", "U+03C5", "U+03C6", "U+03C7",
      "U+03C8", "U+03C9", "U+03CA", "U+03CB", "U+03D7", "U+03D9", "U+03DB", "U+03DD",
      "U+03DF", "U+03E1", "U+03E3", "U+03E5", "U+03E7", "U+03E9", "U+03EB", "U+03ED",
      "U+03EF", "U+03B8", "U+03F8", "U+03F2", "U+03FB", "U+037B", "U+037C", "U+037D",
      "U+0450", "U+0451", "U+0452", "U+0453", "U+0454", "U+0455", "U+0456", "U+0457",
      "U+0458", "U+0459", "U+045A", "U+045B", "U+045C", "U+045D", "U+045E", "U+045F",
      "U+0430", "U+0431", "U+0432", "U+0433", "U+0434", "U+0435", "U+0436", "U+0437",
      "U+0438", "U+0439", "U+043A", "U+043B", "U+043C", "U+043D", "U+043E", "U+043F",
      "U+0440", "U+0441", "U+0442", "U+0443", "U+0444", "U+0445", "U+0446", "U+0447",
      "U+0448", "U+0449", "U+044A", "U+044B", "U+044C", "U+044D", "U+044E", "U+044F",
      "U+0461", "U+0463", "U+0465", "U+0467", "U+0469", "U+046B", "U+046D", "U+046F",
      "U+0471", "U+0473", "U+0475", "U+0477", "U+0479", "U+047B", "U+047D", "U+047F",
      "U+0481", "U+048B", "U+048D", "U+048F", "U+0491", "U+0493", "U+0495", "U+0497",
      "U+0499", "U+049B", "U+049D", "U+049F", "U+04A1", "U+04A3", "U+04A5", "U+04A7",
      "U+04A9", "U+04AB", "U+04AD", "U+04AF", "U+04B1", "U+04B3", "U+04B5", "U+04B7",
      "U+04B9", "U+04BB", "U+04BD", "U+04BF", "U+04CF", "U+04C2", "U+04C4", "U+04C6",
      "U+04C8", "U+04CA", "U+04CC", "U+04CE", "U+04D1", "U+04D3", "U+04D5", "U+04D7",
      "U+04D9", "U+04DB", "U+04DD", "U+04DF", "U+04E1", "U+04E3", "U+04E5", "U+04E7",
      "U+04E9", "U+04EB", "U+04ED", "U+04EF", "U+04F1", "U+04F3", "U+04F5", "U+04F7",
      "U+04F9", "U+04FB", "U+04FD", "U+04FF", "U+0501", "U+0503", "U+0505", "U+0507",
      "U+0509", "U+050B", "U+050D", "U+050F", "U+0511", "U+0513", "U+0515", "U+0517",
      "U+0519", "U+051B", "U+051D", "U+051F", "U+0521", "U+0523", "U+0525", "U+0527",
      "U+0529", "U+052B", "U+052D", "U+052F", "U+0561", "U+0562", "U+0563", "U+0564",
      "U+0565", "U+0566", "U+0567", "U+0568", "U+0569", "U+056A", "U+056B", "U+056C",
      "U+056D", "U+056E", "U+056F", "U+0570", "U+0571", "U+0572", "U+0573", "U+0574",
      "U+0575", "U+0576", "U+0577", "U+0578", "U+0579", "U+057A", "U+057B", "U+057C",
      "U+057D", "U+057E", "U+057F", "U+0580", "U+0581", "U+0582", "U+0583", "U+0584",
      "U+0585", "U+0586", "U+2D00", "U+2D01", "U+2D02", "U+2D03", "U+2D04", "U+2D05",
      "U+2D06", "U+2D07", "U+2D08", "U+2D09", "U+2D0A", "U+2D0B", "U+2D0C", "U+2D0D",
      "U+2D0E", "U+2D0F", "U+2D10", "U+2D11", "U+2D12", "U+2D13", "U+2D14", "U+2D15",
      "U+2D16", "U+2D17", "U+2D18", "U+2D19", "U+2D1A", "U+2D1B", "U+2D1C", "U+2D1D",
      "U+2D1E", "U+2D1F", "U+2D20", "U+2D21", "U+2D22", "U+2D23", "U+2D24", "U+2D25",
      "U+2D27", "U+2D2D", "U+AB70", "U+AB71", "U+AB72", "U+AB73", "U+AB74", "U+AB75",
      "U+AB76", "U+AB77", "U+AB78", "U+AB79", "U+AB7A", "U+AB7B", "U+AB7C", "U+AB7D",
      "U+AB7E", "U+AB7F", "U+AB80", "U+AB81", "U+AB82", "U+AB83", "U+AB84", "U+AB85",
      "U+AB86", "U+AB87", "U+AB88", "U+AB89", "U+AB8A", "U+AB8B", "U+AB8C", "U+AB8D",
      "U+AB8E", "U+AB8F", "U+AB90", "U+AB91", "U+AB92", "U+AB93", "U+AB94", "U+AB95",
      "U+AB96", "U+AB97", "U+AB98", "U+AB99", "U+AB9A", "U+AB9B", "U+AB9C", "U+AB9D",
      "U+AB9E", "U+AB9F", "U+ABA0", "U+ABA1", "U+ABA2", "U+ABA3", "U+ABA4", "U+ABA5",
      "U+ABA6", "U+ABA7", "U+ABA8", "U+ABA9", "U+ABAA", "U+ABAB", "U+ABAC", "U+ABAD",
      "U+ABAE", "U+ABAF", "U+ABB0", "U+ABB1", "U+ABB2", "U+ABB3", "U+ABB4", "U+ABB5",
      "U+ABB6", "U+ABB7", "U+ABB8", "U+ABB9", "U+ABBA", "U+ABBB", "U+ABBC", "U+ABBD",
      "U+ABBE", "U+ABBF", "U+13F8", "U+13F9", "U+13FA", "U+13FB", "U+13FC", "U+13FD",
      "U+10D0", "U+10D1", "U+10D2", "U+10D3", "U+10D4", "U+10D5", "U+10D6", "U+10D7",
      "U+10D8", "U+10D9", "U+10DA", "U+10DB", "U+10DC", "U+10DD", "U+10DE", "U+10DF",
      "U+10E0", "U+10E1", "U+10E2", "U+10E3", "U+10E4", "U+10E5", "U+10E6", "U+10E7",
      "U+10E8", "U+10E9", "U+10EA", "U+10EB", "U+10EC", "U+10ED", "U+10EE", "U+10EF",
      "U+10F0", "U+10F1", "U+10F2", "U+10F3", "U+10F4", "U+10F5", "U+10F6", "U+10F7",
      "U+10F8", "U+10F9", "U+10FA", "U+10FD", "U+10FE", "U+10FF", "U+1E01", "U+1E03",
      "U+1E05", "U+1E07", "U+1E09", "U+1E0B", "U+1E0D", "U+1E0F", "U+1E11", "U+1E13",
      "U+1E15", "U+1E17", "U+1E19", "U+1E1B", "U+1E1D", "U+1E1F", "U+1E21", "U+1E23",
      "U+1E25", "U+1E27", "U+1E29", "U+1E2B", "U+1E2D", "U+1E2F", "U+1E31", "U+1E33",
      "U+1E35", "U+1E37", "U+1E39", "U+1E3B", "U+1E3D", "U+1E3F", "U+1E41", "U+1E43",
      "U+1E45", "U+1E47", "U+1E49", "U+1E4B", "U+1E4D", "U+1E4F", "U+1E51", "U+1E53",
      "U+1E55", "U+1E57", "U+1E59", "U+1E5B", "U+1E5D", "U+1E5F", "U+1E61", "U+1E63",
      "U+1E65", "U+1E67", "U+1E69", "U+1E6B", "U+1E6D", "U+1E6F", "U+1E71", "U+1E73",
      "U+1E75", "U+1E77", "U+1E79", "U+1E7B", "U+1E7D", "U+1E7F", "U+1E81", "U+1E83",
      "U+1E85", "U+1E87", "U+1E89", "U+1E8B", "U+1E8D", "U+1E8F", "U+1E91", "U+1E93",
      "U+1E95", "ß", "U+1EA1", "U+1EA3", "U+1EA5", "U+1EA7", "U+1EA9", "U+1EAB",
      "U+1EAD", "U+1EAF", "U+1EB1", "U+1EB3", "U+1EB5", "U+1EB7", "U+1EB9", "U+1EBB",
      "U+1EBD", "U+1EBF", "U+1EC1", "U+1EC3", "U+1EC5", "U+1EC7", "U+1EC9", "U+1ECB",
      "U+1ECD", "U+1ECF", "U+1ED1", "U+1ED3", "U+1ED5", "U+1ED7", "U+1ED9", "U+1EDB",
      "U+1EDD", "U+1EDF", "U+1EE1", "U+1EE3", "U+1EE5", "U+1EE7", "U+1EE9", "U+1EEB",
      "U+1EED", "U+1EEF", "U+1EF1", "U+1EF3", "U+1EF5", "U+1EF7", "U+1EF9", "U+1EFB",
      "U+1EFD", "U+1EFF", "U+1F00", "U+1F01", "U+1F02", "U+1F03", "U+1F04", "U+1F05",
      "U+1F06", "U+1F07", "U+1F10", "U+1F11", "U+1F12", "U+1F13", "U+1F14", "U+1F15",
      "U+1F20", "U+1F21", "U+1F22", "U+1F23", "U+1F24", "U+1F25", "U+1F26", "U+1F27",
      "U+1F30", "U+1F31", "U+1F32", "U+1F33", "U+1F34", "U+1F35", "U+1F36", "U+1F37",
      "U+1F40", "U+1F41", "U+1F42", "U+1F43", "U+1F44", "U+1F45", "U+1F51", "U+1F53",
      "U+1F55", "U+1F57", "U+1F60", "U+1F61", "U+1F62", "U+1F63", "U+1F64", "U+1F65",
      "U+1F66", "U+1F67", "U+1F80", "U+1F81", "U+1F82", "U+1F83", "U+1F84", "U+1F85",
      "U+1F86", "U+1F87", "U+1F90", "U+1F91", "U+1F92", "U+1F93", "U+1F94", "U+1F95",
      "U+1F96", "U+1F97", "U+1FA0", "U+1FA1", "U+1FA2", "U+1FA3", "U+1FA4", "U+1FA5",
      "U+1FA6", "U+1FA7", "U+1FB0", "U+1FB1", "U+1F70", "U+1F71", "U+1FB3", "U+1F72",
      "U+1F73", "U+1F74", "U+1F75", "U+1FC3", "U+1FD0", "U+1FD1", "U+1F76", "U+1F77",
      "U+1FE0", "U+1FE1", "U+1F7A", "U+1F7B", "U+1FE5", "U+1F78", "U+1F79", "U+1F7C",
      "U+1F7D", "U+1FF3", "U+03C9", "k", "å", "U+214E", "U+2170", "U+2171",
      "U+2172", "U+2173", "U+2174", "U+2175", "U+2176", "U+2177", "U+2178", "U+2179",
      "U+217A", "U+217B", "U+217C", "U+217D", "U+217E", "U+217F", "U+2184", "U+24D0",
      "U+24D1", "U+24D2", "U+24D3", "U+24D4", "U+24D5", "U+24D6", "U+24D7", "U+24D8",
      "U+24D9", "U+24DA", "U+24DB", "U+24DC", "U+24DD", "U+24DE", "U+24DF", "U+24E0",
      "U+24E1", "U+24E2", "U+24E3", "U+24E4", "U+24E5", "U+24E6", "U+24E7", "U+24E8",
      "U+24E9", "U+2C30", "U+2C31", "U+2C32", "U+2C33", "U+2C34", "U+2C35", "U+2C36",
      "U+2C37", "U+2C38", "U+2C39", "U+2C3A", "U+2C3B", "U+2C3C", "U+2C3D", "U+2C3E",
      "U+2C3F", "U+2C40", "U+2C41", "U+2C42", "U+2C43", "U+2C44", "U+2C45", "U+2C46",
      "U+2C47", "U+2C48", "U+2C49", "U+2C4A", "U+2C4B", "U+2C4C", "U+2C4D", "U+2C4E",
      "U+2C4F", "U+2C50", "U+2C51", "U+2C52", "U+2C53", "U+2C54", "U+2C55", "U+2C56",
      "U+2C57", "U+2C58", "U+2C59", "U+2C5A", "U+2C5B", "U+2C5C", "U+2C5D", "U+2C5E",
      "U+2C5F", "U+2C61", "U+026B", "U+1D7D", "U+027D", "U+2C68", "U+2C6A", "U+2C6C",
      "U+0251", "U+0271", "U+0250", "U+0252", "U+2C73", "U+2C76", "U+023F", "U+0240",
      "U+2C81", "U+2C83", "U+2C85", "U+2C87", "U+2C89", "U+2C8B", "U+2C8D", "U+2C8F",
      "U+2C91", "U+2C93", "U+2C95", "U+2C97", "U+2C99", "U+2C9B", "U+2C9D", "U+2C9F",
      "U+2CA1", "U+2CA3", "U+2CA5", "U+2CA7", "U+2CA9", "U+2CAB", "U+2CAD", "U+2CAF",
      "U+2CB1", "U+2CB3", "U+2CB5", "U+2CB7", "U+2CB9", "U+2CBB", "U+2CBD", "U+2CBF",
      "U+2CC1", "U+2CC3", "U+2CC5", "U+2CC7", "U+2CC9", "U+2CCB", "U+2CCD", "U+2CCF",
      "U+2CD1", "U+2CD3", "U+2CD5", "U+2CD7", "U+2CD9", "U+2CDB", "U+2CDD", "U+2CDF",
      "U+2CE1", "U+2CE3", "U+2CEC", "U+2CEE", "U+2CF3", "U+A641", "U+A643", "U+A645",
      "U+A647", "U+A649", "U+A64B", "U+A64D", "U+A64F", "U+A651", "U+A653", "U+A655",
      "U+A657", "U+A659", "U+A65B", "U+A65D", "U+A65F", "U+A661", "U+A663", "U+A665",
      "U+A667", "U+A669", "U+A66B", "U+A66D", "U+A681", "U+A683", "U+A685", "U+A687",
      "U+A689", "U+A68B", "U+A68D", "U+A68F", "U+A691", "U+A693", "U+A695", "U+A697",
      "U+A699", "U+A69B", "U+A723", "U+A725", "U+A727", "U+A729", "U+A72B", "U+A72D",
      "U+A72F", "U+A733", "U+A735", "U+A737", "U+A739", "U+A73B", "U+A73D", "U+A73F",
      "U+A741", "U+A743", "U+A745", "U+A747", "U+A749", "U+A74B", "U+A74D", "U+A74F",
      "U+A751", "U+A753", "U+A755", "U+A757", "U+A759", "U+A75B", "U+A75D", "U+A75F",
      "U+A761", "U+A763", "U+A765", "U+A767", "U+A769", "U+A76B", "U+A76D", "U+A76F",
      "U+A77A", "U+A77C", "U+1D79", "U+A77F", "U+A781", "U+A783", "U+A785", "U+A787",
      "U+A78C", "U+0265", "U+A791", "U+A793", "U+A797", "U+A799", "U+A79B", "U+A79D",
      "U+A79F", "U+A7A1", "U+A7A3", "U+A7A5", "U+A7A7", "U+A7A9", "U+0266", "U+025C",
      "U+0261", "U+026C", "U+026A", "U+029E", "U+0287", "U+029D", "U+AB53", "U+A7B5",
      "U+A7B7", "U+A7B9", "U+A7BB", "U+A7BD", "U+A7BF", "U+A7C1", "U+A7C3", "U+A794",
      "U+0282", "U+1D8E", "U+A7C8", "U+A7CA", "U+A7D1", "U+A7D7", "U+A7D9", "U+A7F6",
      "U+FF41", "U+FF42", "U+FF43", "U+FF44", "U+FF45", "U+FF46", "U+FF47", "U+FF48",
      "U+FF49", "U+FF4A", "U+FF4B", "U+FF4C", "U+FF4D", "U+FF4E", "U+FF4F", "U+FF50",
      "U+FF51", "U+FF52", "U+FF53", "U+FF54", "U+FF55", "U+FF56", "U+FF57", "U+FF58",
      "U+FF59", "U+FF5A", "U+10428", "U+10429", "U+1042A", "U+1042B", "U+1042C", "U+1042D",
      "U+1042E", "U+1042F", "U+10430", "U+10431", "U+10432", "U+10433", "U+10434", "U+10435",
      "U+10436", "U+10437", "U+10438", "U+10439", "U+1043A", "U+1043B", "U+1043C", "U+1043D",
      "U+1043E", "U+1043F", "U+10440", "U+10441", "U+10442", "U+10443", "U+10444", "U+10445",
      "U+10446", "U+10447", "U+10448", "U+10449", "U+1044A", "U+1044B", "U+1044C", "U+1044D",
      "U+1044E", "U+1044F", "U+104D8", "U+104D9", "U+104DA", "U+104DB", "U+104DC", "U+104DD",
      "U+104DE", "U+104DF", "U+104E0", "U+104E1", "U+104E2", "U+104E3", "U+104E4", "U+104E5",
      "U+104E6", "U+104E7", "U+104E8", "U+104E9", "U+104EA", "U+104EB", "U+104EC", "U+104ED",
      "U+104EE", "U+104EF", "U+104F0", "U+104F1", "U+104F2", "U+104F3", "U+104F4", "U+104F5",
      "U+104F6", "U+104F7", "U+104F8", "U+104F9", "U+104FA", "U+104FB", "U+10597", "U+10598",
      "U+10599", "U+1059A", "U+1059B", "U+1059C", "U+1059D", "U+1059E", "U+1059F", "U+105A0",
      "U+105A1", "U+105A3", "U+105A4", "U+105A5", "U+105A6", "U+105A7", "U+105A8", "U+105A9",
      "U+105AA", "U+105AB", "U+105AC", "U+105AD", "U+105AE", "U+105AF", "U+105B0", "U+105B1",
      "U+105B3", "U+105B4", "U+105B5", "U+105B6", "U+105B7", "U+105B8", "U+105B9", "U+105BB",
      "U+105BC", "U+10CC0", "U+10CC1", "U+10CC2", "U+10CC3", "U+10CC4", "U+10CC5", "U+10CC6",
      "U+10CC7", "U+10CC8", "U+10CC9", "U+10CCA", "U+10CCB", "U+10CCC", "U+10CCD", "U+10CCE",
      "U+10CCF", "U+10CD0", "U+10CD1", "U+10CD2", "U+10CD3", "U+10CD4", "U+10CD5", "U+10CD6",
      "U+10CD7", "U+10CD8", "U+10CD9", "U+10CDA", "U+10CDB", "U+10CDC", "U+10CDD", "U+10CDE",
      "U+10CDF", "U+10CE0", "U+10CE1", "U+10CE2", "U+10CE3", "U+10CE4", "U+10CE5", "U+10CE6",
      "U+10CE7", "U+10CE8", "U+10CE9", "U+10CEA", "U+10CEB", "U+10CEC", "U+10CED", "U+10CEE",
      "U+10CEF", "U+10CF0", "U+10CF1", "U+10CF2", "U+118C0", "U+118C1", "U+118C2", "U+118C3",
      "U+118C4", "U+118C5", "U+118C6", "U+118C7", "U+118C8", "U+118C9", "U+118CA", "U+118CB",
      "U+118CC", "U+118CD", "U+118CE", "U+118CF", "U+118D0", "U+118D1", "U+118D2", "U+118D3",
      "U+118D4", "U+118D5", "U+118D6", "U+118D7", "U+118D8", "U+118D9", "U+118DA", "U+118DB",
      "U+118DC", "U+118DD", "U+118DE", "U+118DF", "U+16E60", "U+16E61", "U+16E62", "U+16E63",
      "U+16E64", "U+16E65", "U+16E66", "U+16E67", "U+16E68", "U+16E69", "U+16E6A", "U+16E6B",
      "U+16E6C", "U+16E6D", "U+16E6E", "U+16E6F", "U+16E70", "U+16E71", "U+16E72", "U+16E73",
      "U+16E74", "U+16E75", "U+16E76", "U+16E77", "U+16E78", "U+16E79", "U+16E7A", "U+16E7B",
      "U+16E7C", "U+16E7D", "U+16E7E", "U+16E7F", "U+1E922", "U+1E923", "U+1E924", "U+1E925",
      "U+1E926", "U+1E927", "U+1E928", "U+1E929", "U+1E92A", "U+1E92B", "U+1E92C", "U+1E92D",
      "U+1E92E", "U+1E92F", "U+1E930", "U+1E931", "U+1E932", "U+1E933", "U+1E934", "U+1E935",
      "U+1E936", "U+1E937", "U+1E938", "U+1E939", "U+1E93A", "U+1E93B", "U+1E93C", "U+1E93D",
      "U+1E93E", "U+1E93F", "U+1E940", "U+1E941", "U+1E942", "U+1E943">>

\* the capital I with dot above, which str.lower() gives two characters for
lower_full_chars ==
    <<"U+0130">>

lower_full_texts ==
    <<<<"i", "U+0307">>>>

\* the cased characters that no case mapping changes
other_cased ==
    {"ª", "º", "U+0138", "U+018D", "U+019B", "U+01AA", "U+01AB", "U+01BA",
     "U+01BE", "U+0221", "U+0234", "U+0235", "U+0236", "U+0237", "U+0238", "U+0239",
     "U+0255", "U+0258", "U+025A", "U+025D", "U+025E", "U+025F", "U+0262", "U+0264",
     "U+0267", "U+026D", "U+026E", "U+0270", "U+0273", "U+0274", "U+0276", "U+0277",
     "U+0278", "U+0279", "U+027A", "U+027B", "U+027C", "U+027E", "U+027F", "U+0281",
     "U+0284", "U+0285", "U+0286", "U+028D", "U+028E", "U+028F", "U+0290", "U+0291",
     "U+0293", "U+0295", "U+0296", "U+0297", "U+0298", "U+0299", "U+029A", "U+029B",
     "U+029C", "U+029F", "U+02A0", "U+02A1", "U+02A2", "U+02A3", "U+02A4", "U+02A5",
     "U+02A6", "U+02A7", "U+02A8", "U+02A9", "U+02AA", "U+02AB", "U+02AC", "U+02AD",
     "U+02AE", "U+02AF", "U+02B0", "U+02B1", "U+02B2", "U+02B3", "U+02B4", "U+02B5",
     "U+02B6", "U+02B7", "U+02B8", "U+02C0", "U+02C1", "U+02E0", "U+02E1", "U+02E2",
     "U+02E3", "U+02E4", "U+037A", "U+03D2", "U+03D3", "U+03D4", "U+03FC", "U+0560",
     "U+0588", "U+1D00", "U+1D01", "U+1D02", "U+1D03", "U+1D04", "U+1D05", "U+1D06",
     "U+1D07", "U+1D08", "U+1D09", "U+1D0A", "U+1D0B", "U+1D0C", "U+1D0D", "U+1D0E",
     "U+1D0F", "U+1D10", "U+1D11", "U+1D12", "U+1D13", "U+1D14", "U+1D15", "U+1D16",
     "U+1D17", "U+1D18", "U+1D19", "U+1D1A", "U+1D1B", "U+1D1C", "U+1D1D", "U+1D1E",
     "U+1D1F", "U+1D20", "U+1D21", "U+1D22", "U+1D23", "U+1D24", "U+1D25", "U+1D26",
     "U+1D27", "U+1D28", "U+1D29", "U+1D2A", "U+1D2B", "U+1D2C", "U+1D2D", "U+1D2E",
     "U+1D2F", "U+1D30", "U+1D31", "U+1D32", "U+1D33", "U+1D34", "U+1D35", "U+1D36",
     "U+1D37", "U+1D38", "U+1D39", "U+1D3A", "U+1D3B", "U+1D3C", "U+1D3D", "U+1D3E",
     "U+1D3F", "U+1D40", "U+1D41", "U+1D42", "U+1D43", "U+1D44", "U+1D45", "U+1D46",
     "U+1D47", "U+1D48", "U+1D49", "U+1D4A", "U+1D4B", "U+1D4C", "U+1D4D", "U+1D4E",
     "U+1D4F", "U+1D50", "U+1D51", "U+1D52", "U+1D53", "U+1D54", "U+1D55", "U+1D56",
     "U+1D57", "U+1D58", "U+1D59", "U+1D5A", "U+1D5B", "U+1D5C", "U+1D5D", "U+1D5E",
     "U+1D5F", "U+1D60", "U+1D61", "U+1D62", "U+1D63", "U+1D64", "U+1D65", "U+1D66",
     "U+1D67", "U+1D68", "U+1D69", "U+1D6A", "U+1D6B", "U+1D6C", "U+1D6D", "U+1D6E",
     "U+1D6F", "U+1D70", "U+1D71", "U+1D72", "U+1D73", "U+1D74", "U+1D75", "U+1D76",
     "U+1D77", "U+1D78", "U+1D7A", "U+1D7B", "U+1D7C", "U+1D7E", "U+1D7F", "U+1D80",
     "U+1D81", "U+1D82", "U+1D83", "U+1D84", "U+1D85", "U+1D86", "U+1D87", "U+1D88",
     "U+1D89", "U+1D8A", "U+1D8B", "U+1D8C", "U+1D8D", "U+1D8F", "U+1D90", "U+1D91",
     "U+1D92", "U+1D93", "U+1D94", "U+1D95", "U+1D96", "U+1D97", "U+1D98", "U+1D99",
     "U+1D9A", "U+1D9B", "U+1D9C", "U+1D9D", "U+1D9E", "U+1D9F", "U+1DA0", "U+1DA1",
     "U+1DA2", "U+1DA3", "U+1DA4", "U+1DA5", "U+1DA6", "U+1DA7", "U+1DA8", "U+1DA9",
     "U+1DAA", "U+1DAB", "U+1DAC", "U+1DAD", "U+1DAE", "U+1DAF", "U+1DB0", "U+1DB1",
     "U+1DB2", "U+1DB3", "U+1DB4", "U+1DB5", "U+1DB6", "U+1DB7", "U+1DB8", "U+1DB9",
     "U+1DBA", "U+1DBB", "U+1DBC", "U+1DBD", "U+1DBE", "U+1DBF", "U+1E9C", "U+1E9D",
     "U+1E9F", "U+2071", "U+207F", "U+2090", "U+2091", "U+2092", "U+2093", "U+2094",
     "U+2095", "U+2096", "U+2097", "U+2098", "U+2099", "U+209A", "U+209B", "U+209C",
     "U+2102", "U+2107", "U+210A", "U+210B", "U+210C", "U+210D", "U+210E", "U+210F",
     "U+2110", "U+2111", "U+2112", "U+2113", "U+2115", "U+2119", "U+211A", "U+211B",
     "U+211C", "U+211D", "U+2124", "U+2128", "U+212C", "U+212D", "U+212F", "U+2130",
     "U+2131", "U+2133", "U+2134", "U+2139", "U+213C", "U+213D", "U+213E", "U+213F",
     "U+2145", "U+2146", "U+2147", "U+2148", "U+2149", "U+2C71", "U+2C74", "U+2C77",
     "U+2C78", "U+2C79", "U+2C7A", "U+2C7B", "U+2C7C", "U+2C7D", "U+2CE4", "U+A69C",
     "U+A69D", "U+A730", "U+A731", "U+A770", "U+A771", "U+A772", "U+A773", "U+A774",
     "U+A775", "U+A776", "U+A777", "U+A778", "U+A78E", "U+A795", "U+A7AF", "U+A7D3",
     "U+A7D5", "U+A7F8", "U+A7F9", "U+A7FA", "U+AB30", "U+AB31", "U+AB32", "U+AB33",
     "U+AB34", "U+AB35", "U+AB36", "U+AB37", "U+AB38", "U+AB39", "U+AB3A", "U+AB3B",
     "U+AB3C", "U+AB3D", "U+AB3E", "U+AB3F", "U+AB40", "U+AB41", "U+AB42", "U+AB43",
     "U+AB44", "U+AB45", "U+AB46", "U+AB47", "U+AB48", "U+AB49", "U+AB4A", "U+AB4B",
     "U+AB4C", "U+AB4D", "U+AB4E", "U+AB4F", "U+AB50", "U+AB51", "U+AB52", "U+AB54",
     "U+AB55", "U+AB56", "U+AB57", "U+AB58", "U+AB59", "U+AB5A", "U+AB5C", "U+AB5D",
     "U+AB5E", "U+AB5F", "U+AB60", "U+AB61", "U+AB62", "U+AB63", "U+AB64", "U+AB65",
     "U+AB66", "U+AB67", "U+AB68", "U+10780", "U+10783", "U+10784", "U+10785", "U+10787",
     "U+10788", "U+10789", "U+1078A", "U+1078B", "U+1078C", "U+1078D", "U+1078E", "U+1078F",
     "U+10790", "U+10791", "U+10792", "U+10793", "U+10794", "U+10795", "U+10796", "U+10797",
     "U+10798", "U+10799", "U+1079A", "U+1079B", "U+1079C", "U+1079D", "U+1079E", "U+1079F",
     "U+107A0", "U+107A1", "U+107A2", "U+107A3", "U+107A4", "U+107A5", "U+107A6", "U+107A7",
     "U+107A8", "U+107A9", "U+107AA", "U+107AB", "U+107AC", "U+107AD", "U+107AE", "U+107AF",
     "U+107B0", "U+107B2", "U+107B3", "U+107B4", "U+107B5", "U+107B6", "U+107B7", "U+107B8",
     "U+107B9", "U+107BA", "U+1D400", "U+1D401", "U+1D402", "U+1D403", "U+1D404", "U+1D405",
     "U+1D406", "U+1D407", "U+1D408", "U+1D409", "U+1D40A", "U+1D40B", "U+1D40C", "U+1D40D",
     "U+1D40E", "U+1D40F", "U+1D410", "U+1D411", "U+1D412", "U+1D413", "U+1D414", "U+1D415",
     "U+1D416", "U+1D417", "U+1D418", "U+1D419", "U+1D41A", "U+1D41B", "U+1D41C", "U+1D41D",
     "U+1D41E", "U+1D41F", "U+1D420", "U+1D421", "U+1D422", "U+1D423", "U+1D424", "U+1D425",
     "U+1D426", "U+1D427", "U+1D428", "U+1D429", "U+1D42A", "U+1D42B", "U+1D42C", "U+1D42D",
     "U+1D42E", "U+1D42F", "U+1D430", "U+1D431", "U+1D432", "U+1D433", "U+1D434", "U+1D435",
     "U+1D436", "U+1D437", "U+1D438", "U+1D439", "U+1D43A", "U+1D43B", "U+1D43C", "U+1D43D",
     "U+1D43E", "U+1D43F", "U+1D440", "U+1D441", "U+1D442", "U+1D443", "U+1D444", "U+1D445",
     "U+1D446", "U+1D447", "U+1D448", "U+1D449", "U+1D44A", "U+1D44B", "U+1D44C", "U+1D44D",
     "U+1D44E", "U+1D44F", "U+1D450", "U+1D451", "U+1D452", "U+1D453", "U+1D454", "U+1D456",
     "U+1D457", "U+1D458", "U+1D459", "U+1D45A", "U+1D45B", "U+1D45C", "U+1D45D", "U+1D45E",
     "U+1D45F", "U+1D460", "U+1D461", "U+1D462", "U+1D463", "U+1D464", "U+1D465", "U+1D466",
     "U+1D467", "U+1D468", "U+1D469", "U+1D46A", "U+1D46B", "U+1D46C", "U+1D46D", "U+1D46E",
     "U+1D46F", "U+1D470", "U+1D471", "U+1D472", "U+1D473", "U+1D474", "U+1D475", "U+1D476",
     "U+1D477", "U+1D478", "U+1D479", "U+1D47A", "U+1D47B", "U+1D47C", "U+1D47D", "U+1D47E",
     "U+1D47F", "U+1D480", "U+1D481", "U+1D482", "U+1D483", "U+1D484", "U+1D485", "U+1D486",
     "U+1D487", "U+1D488", "U+1D489", "U+1D48A", "U+1D48B", "U+1D48C", "U+1D48D", "U+1D48E",
     "U+1D48F", "U+1D490", "U+1D491", "U+1D492", "U+1D493", "U+1D494", "U+1D495", "U+1D496",
     "U+1D497", "U+1D498", "U+1D499", "U+1D49A", "U+1D49B", "U+1D49C", "U+1D49E", "U+1D49F",
     "U+1D4A2", "U+1D4A5", "U+1D4A6", "U+1D4A9", "U+1D4AA", "U+1D4AB", "U+1D4AC", "U+1D4AE",
     "U+1D4AF", "U+1D4B0", "U+1D4B1", "U+1D4B2", "U+1D4B3", "U+1D4B4", "U+1D4B5", "U+1D4B6",
     "U+1D4B7", "U+1D4B8", "U+1D4B9", "U+1D4BB", "U+1D4BD", "U+1D4BE", "U+1D4BF", "U+1D4C0",
     "U+1D4C1", "U+1D4C2", "U+1D4C3", "U+1D4C5", "U+1D4C6", "U+1D4C7", "U+1D4C8", "U+1D4C9",
     "U+1D4CA", "U+1D4CB", "U+1D4CC", "U+1D4CD", "U+1D4CE", "U+1D4CF", "U+1D4D0", "U+1D4D1",
     "U+1D4D2", "U+1D4D3", "U+1D4D4", "U+1D4D5", "U+1D4D6", "U+1D4D7", "U+1D4D8", "U+1D4D9",
     "U+1D4DA", "U+1D4DB", "U+1D4DC", "U+1D4DD", "U+1D4DE", "U+1D4DF", "U+1D4E0", "U+1D4E1",
     "U+1D4E2", "U+1D4E3", "U+1D4E4", "U+1D4E5", "U+1D4E6", "U+1D4E7", "U+1D4E8", "U+1D4E9",
     "U+1D4EA", "U+1D4EB", "U+1D4EC", "U+1D4ED", "U+1D4EE", "U+1D4EF", "U+1D4F0", "U+1D4F1",
     "U+1D4F2", "U+1D4F3", "U+1D4F4", "U+1D4F5", "U+1D4F6", "U+1D4F7", "U+1D4F8", "U+1D4F9",
     "U+1D4FA", "U+1D4FB", "U+1D4FC", "U+1D4FD", "U+1D4FE", "U+1D4FF", "U+1D500", "U+1D501",
     "U+1D502", "U+1D503", "U+1D504", "U+1D505", "U+1D507", "U+1D508", "U+1D509", "U+1D50A",
     "U+1D50D", "U+1D50E", "U+1D50F", "U+1D510", "U+1D511", "U+1D512", "U+1D513", "U+1D514",
     "U+1D516", "U+1D517", "U+1D518", "U+1D519", "U+1D51A", "U+1D51B", "U+1D51C", "U+1D51E",
     "U+1D51F", "U+1D520", "U+1D521", "U+1D522", "U+1D523", "U+1D524", "U+1D525", "U+1D526",
     "U+1D527", "U+1D528", "U+1D529", "U+1D52A", "U+1D52B", "U+1D52C", "U+1D52D", "U+1D52E",
     "U+1D52F", "U+1D530", "U+1D531", "U+1D532", "U+1D533", "U+1D534", "U+1D535", "U+1D536",
     "U+1D537", "U+1D538", "U+1D539", "U+1D53B", "U+1D53C", "U+1D53D", "U+1D53E", "U+1D540",
     "U+1D541", "U+1D542", "U+1D543", "U+1D544", "U+1D546", "U+1D54A", "U+1D54B", "U+1D54C",
     "U+1D54D", "U+1D54E", "U+1D54F", "U+1D550", "U+1D552", "U+1D553", "U+1D554", "U+1D555",
     "U+1D556", "U+1D557", "U+1D558", "U+1D559", "U+1D55A", "U+1D55B", "U+1D55C", "U+1D55D",
     "U+1D55E", "U+1D55F", "U+1D560", "U+1D561", "U+1D562", "U+1D563", "U+1D564", "U+1D565",
     "U+1D566", "U+1D567", "U+1D568", "U+1D569", "U+1D56A", "U+1D56B", "U+1D56C", "U+1D56D",
     "U+1D56E", "U+1D56F", "U+1D570", "U+1D571", "U+1D572", "U+1D573", "U+1D574", "U+1D575",
     "U+1D576", "U+1D577", "U+1D578", "U+1D579", "U+1D57A", "U+1D57B", "U+1D57C", "U+1D57D",
     "U+1D57E", "U+1D57F", "U+1D580", "U+1D581", "U+1D582", "U+1D583", "U+1D584", "U+1D585",
     "U+1D586", "U+1D587", "U+1D588", "U+1D589", "U+1D58A", "U+1D58B", "U+1D58C", "U+1D58D",
     "U+1D58E", "U+1D58F", "U+1D590", "U+1D591", "U+1D592", "U+1D593", "U+1D594", "U+1D595",
     "U+1D596", "U+1D597", "U+1D598", "U+1D599", "U+1D59A", "U+1D59B", "U+1D59C", "U+1D59D",
     "U+1D59E", "U+1D59F", "U+1D5A0", "U+1D5A1", "U+1D5A2", "U+1D5A3", "U+1D5A4", "U+1D5A5",
     "U+1D5A6", "U+1D5A7", "U+1D5A8", "U+1D5A9", "U+1D5AA", "U+1D5AB", "U+1D5AC", "U+1D5AD",
     "U+1D5AE", "U+1D5AF", "U+1D5B0", "U+1D5B1", "U+1D5B2", "U+1D5B3", "U+1D5B4", "U+1D5B5",
     "U+1D5B6", "U+1D5B7", "U+1D5B8", "U+1D5B9", "U+1D5BA", "U+1D5BB", "U+1D5BC", "U+1D5BD",
     "U+1D5BE", "U+1D5BF", "U+1D5C0", "U+1D5C1", "U+1D5C2", "U+1D5C3", "U+1D5C4", "U+1D5C5",
     "U+1D5C6", "U+1D5C7", "U+1D5C8", "U+1D5C9", "U+1D5CA", "U+1D5CB", "U+1D5CC", "U+1D5CD",
     "U+1D5CE", "U+1D5CF", "U+1D5D0", "U+1D5D1", "U+1D5D2", "U+1D5D3", "U+1D5D4", "U+1D5D5",
     "U+1D5D6", "U+1D5D7", "U+1D5D8", "U+1D5D9", "U+1D5DA", "U+1D5DB", "U+1D5DC", "U+1D5DD",
     "U+1D5DE", "U+1D5DF", "U+1D5E0", "U+1D5E1", "U+1D5E2", "U+1D5E3", "U+1D5E4", "U+1D5E5",
     "U+1D5E6", "U+1D5E7", "U+1D5E8", "U+1D5E9", "U+1D5EA", "U+1D5EB", "U+1D5EC", "U+1D5ED",
     "U+1D5EE", "U+1D5EF", "U+1D5F0", "U+1D5F1", "U+1D5F2", "U+1D5F3", "U+1D5F4", "U+1D5F5",
     "U+1D5F6", "U+1D5F7", "U+1D5F8", "U+1D5F9", "U+1D5FA", "U+1D5FB", "U+1D5FC", "U+1D5FD",
     "U+1D5FE", "U+1D5FF", "U+1D600", "U+1D601", "U+1D602", "U+1D603", "U+1D604", "U+1D605",
     "U+1D606", "U+1D607", "U+1D608", "U+1D609", "U+1D60A", "U+1D60B", "U+1D60C", "U+1D60D",
     "U+1D60E", "U+1D60F", "U+1D610", "U+1D611", "U+1D612", "U+1D613", "U+1D614", "U+1D615",
     "U+1D616", "U+1D617", "U+1D618", "U+1D619", "U+1D61A", "U+1D61B", "U+1D61C", "U+1D61D",
     "U+1D61E", "U+1D61F", "U+1D620", "U+1D621", "U+1D622", "U+1D623", "U+1D624", "U+1D625",
     "U+1D626", "U+1D627", "U+1D628", "U+1D629", "U+1D62A", "U+1D62B", "U+1D62C", "U+1D62D",
     "U+1D62E", "U+1D62F", "U+1D630", "U+1D631", "U+1D632", "U+1D633", "U+1D634", "U+1D635",
     "U+1D636", "U+1D637", "U+1D638", "U+1D639", "U+1D63A", "U+1D63B", "U+1D63C", "U+1D63D",
     "U+1D63E", "U+1D63F", "U+1D640", "U+1D641", "U+1D642", "U+1D643", "U+1D644", "U+1D645",
     "U+1D646", "U+1D647", "U+1D648", "U+1D649", "U+1D64A", "U+1D64B", "U+1D64C", "U+1D64D",
     "U+1D64E", "U+1D64F", "U+1D650", "U+1D651", "U+1D652", "U+1D653", "U+1D654", "U+1D655",
     "U+1D656", "U+1D657", "U+1D658", "U+1D659", "U+1D65A", "U+1D65B", "U+1D65C", "U+1D65D",
     "U+1D65E", "U+1D65F", "U+1D660", "U+1D661", "U+1D662", "U+1D663", "U+1D664", "U+1D665",
     "U+1D666", "U+1D667", "U+1D668", "U+1D669", "U+1D66A", "U+1D66B", "U+1D66C", "U+1D66D",
     "U+1D66E", "U+1D66F", "U+1D670", "U+1D671", "U+1D672", "U+1D673", "U+1D674", "U+1D675",
     "U+1D676", "U+1D677", "U+1D678", "U+1D679", "U+1D67A", "U+1D67B", "U+1D67C", "U+1D67D",
     "U+1D67E", "U+1D67F", "U+1D680", "U+1D681", "U+1D682", "U+1D683", "U+1D684", "U+1D685",
     "U+1D686", "U+1D687", "U+1D688", "U+1D689", "U+1D68A", "U+1D68B", "U+1D68C", "U+1D68D",
     "U+1D68E", "U+1D68F", "U+1D690", "U+1D691", "U+1D692", "U+1D693", "U+1D694", "U+1D695",
     "U+1D696", "U+1D697", "U+1D698", "U+1D699", "U+1D69A", "U+1D69B", "U+1D69C", "U+1D69D",
     "U+1D69E", "U+1D69F", "U+1D6A0", "U+1D6A1", "U+1D6A2", "U+1D6A3", "U+1D6A4", "U+1D6A5",
     "U+1D6A8", "U+1D6A9", "U+1D6AA", "U+1D6AB", "U+1D6AC", "U+1D6AD", "U+1D6AE", "U+1D6AF",
     "U+1D6B0", "U+1D6B1", "U+1D6B2", "U+1D6B3", "U+1D6B4", "U+1D6B5", "U+1D6B6", "U+1D6B7",
     "U+1D6B8", "U+1D6B9", "U+1D6BA", "U+1D6BB", "U+1D6BC", "U+1D6BD", "U+1D6BE", "U+1D6BF",
     "U+1D6C0", "U+1D6C2", "U+1D6C3", "U+1D6C4", "U+1D6C5", "U+1D6C6", "U+1D6C7", "U+1D6C8",
     "U+1D6C9", "U+1D6CA", "U+1D6CB", "U+1D6CC", "U+1D6CD", "U+1D6CE", "U+1D6CF", "U+1D6D0",
     "U+1D6D1", "U+1D6D2", "U+1D6D3", "U+1D6D4", "U+1D6D5", "U+1D6D6", "U+1D6D7", "U+1D6D8",
     "U+1D6D9", "U+1D6DA", "U+1D6DC", "U+1D6DD", "U+1D6DE", "U+1D6DF", "U+1D6E0", "U+1D6E1",
     "U+1D6E2", "U+1D6E3", "U+1D6E4", "U+1D6E5", "U+1D6E6", "U+1D6E7", "U+1D6E8", "U+1D6E9",
     "U+1D6EA", "U+1D6EB", "U+1D6EC", "U+1D6ED", "U+1D6EE", "U+1D6EF", "U+1D6F0", "U+1D6F1",
     "U+1D6F2", "U+1D6F3", "U+1D6F4", "U+1D6F5", "U+1D6F6", "U+1D6F7", "U+1D6F8", "U+1D6F9",
     "U+1D6FA", "U+1D6FC", "U+1D6FD", "U+1D6FE", "U+1D6FF", "U+1D700", "U+1D701", "U+1D702",
     "U+1D703", "U+1D704", "U+1D705", "U+1D706", "U+1D707", "U+1D708", "U+1D709", "U+1D70A",
     "U+1D70B", "U+1D70C", "U+1D70D", "U+1D70E", "U+1D70F", "U+1D710", "U+1D711", "U+1D712",
     "U+1D713", "U+1D714", "U+1D716", "U+1D717", "U+1D718", "U+1D719", "U+1D71A", "U+1D71B",
     "U+1D71C", "U+1D71D", "U+1D71E", "U+1D71F", "U+1D720", "U+1D721", "U+1D722", "U+1D723",
     "U+1D724", "U+1D725", "U+1D726", "U+1D727", "U+1D728", "U+1D729", "U+1D72A", "U+1D72B",
     "U+1D72C", "U+1D72D", "U+1D72E", "U+1D72F", "U+1D730", "U+1D731", "U+1D732", "U+1D733",
     "U+1D734", "U+1D736", "U+1D737", "U+1D738", "U+1D739", "U+1D73A", "U+1D73B", "U+1D73C",
     "U+1D73D", "U+1D73E", "U+1D73F", "U+1D740", "U+1D741", "U+1D742", "U+1D743", "U+1D744",
     "U+1D745", "U+1D746", "U+1D747", "U+1D748", "U+1D749", "U+1D74A", "U+1D74B", "U+1D74C",
     "U+1D74D", "U+1D74E", "U+1D750", "U+1D751", "U+1D752", "U+1D753", "U+1D754", "U+1D755",
     "U+1D756", "U+1D757", "U+1D758", "U+1D759", "U+1D75A", "U+1D75B", "U+1D75C", "U+1D75D",
     "U+1D75E", "U+1D75F", "U+1D760", "U+1D761", "U+1D762", "U+1D763", "U+1D764", "U+1D765",
     "U+1D766", "U+1D767", "U+1D768", "U+1D769", "U+1D76A", "U+1D76B", "U+1D76C", "U+1D76D",
     "U+1D76E", "U+1D770", "U+1D771", "U+1D772", "U+1D773", "U+1D774", "U+1D775", "U+1D776",
     "U+1D777", "U+1D778", "U+1D779", "U+1D77A", "U+1D77B", "U+1D77C", "U+1D77D", "U+1D77E",
     "U+1D77F", "U+1D780", "U+1D781", "U+1D782", "U+1D783", "U+1D784", "U+1D785", "U+1D786",
     "U+1D787", "U+1D788", "U+1D78A", "U+1D78B", "U+1D78C", "U+1D78D", "U+1D78E", "U+1D78F",
     "U+1D790", "U+1D791", "U+1D792", "U+1D793", "U+1D794", "U+1D795", "U+1D796", "U+1D797",
     "U+1D798", "U+1D799", "U+1D79A", "U+1D79B", "U+1D79C", "U+1D79D", "U+1D79E", "U+1D79F",
     "U+1D7A0", "U+1D7A1", "U+1D7A2", "U+1D7A3", "U+1D7A4", "U+1D7A5", "U+1D7A6", "U+1D7A7",
     "U+1D7A8", "U+1D7AA", "U+1D7AB", "U+1D7AC", "U+1D7AD", "U+1D7AE", "U+1D7AF", "U+1D7B0",
     "U+1D7B1", "U+1D7B2", "U+1D7B3", "U+1D7B4", "U+1D7B5", "U+1D7B6", "U+1D7B7", "U+1D7B8",
     "U+1D7B9", "U+1D7BA", "U+1D7BB", "U+1D7BC", "U+1D7BD", "U+1D7BE", "U+1D7BF", "U+1D7C0",
     "U+1D7C1", "U+1D7C2", "U+1D7C4", "U+1D7C5", "U+1D7C6", "U+1D7C7", "U+1D7C8", "U+1D7C9",
     "U+1D7CA", "U+1D7CB", "U+1DF00", "U+1DF01", "U+1DF02", "U+1DF03", "U+1DF04", "U+1DF05",
     "U+1DF06", "U+1DF07", "U+1DF08", "U+1DF09", "U+1DF0B", "U+1DF0C", "U+1DF0D", "U+1DF0E",
     "U+1DF0F", "U+1DF10", "U+1DF11", "U+1DF12", "U+1DF13", "U+1DF14", "U+1DF15", "U+1DF16",
     "U+1DF17", "U+1DF18", "U+1DF19", "U+1DF1A", "U+1DF1B", "U+1DF1C", "U+1DF1D", "U+1DF1E",
     "U+1F130", "U+1F131", "U+1F132", "U+1F133", "U+1F134", "U+1F135", "U+1F136", "U+1F137",
     "U+1F138", "U+1F139", "U+1F13A", "U+1F13B", "U+1F13C", "U+1F13D", "U+1F13E", "U+1F13F",
     "U+1F140", "U+1F141", "U+1F142", "U+1F143", "U+1F144", "U+1F145", "U+1F146", "U+1F147",
     "U+1F148", "U+1F149", "U+1F150", "U+1F151", "U+1F152", "U+1F153", "U+1F154", "U+1F155",
     "U+1F156", "U+1F157", "U+1F158", "U+1F159", "U+1F15A", "U+1F15B", "U+1F15C", "U+1F15D",
     "U+1F15E", "U+1F15F", "U+1F160", "U+1F161", "U+1F162", "U+1F163", "U+1F164", "U+1F165",
     "U+1F166", "U+1F167", "U+1F168", "U+1F169", "U+1F170", "U+1F171", "U+1F172", "U+1F173",
     "U+1F174", "U+1F175", "U+1F176", "U+1F177", "U+1F178", "U+1F179", "U+1F17A", "U+1F17B",
     "U+1F17C", "U+1F17D", "U+1F17E", "U+1F17F", "U+1F180", "U+1F181", "U+1F182", "U+1F183",
     "U+1F184", "U+1F185", "U+1F186", "U+1F187", "U+1F188", "U+1F189"}

\* the case-ignorable characters; the soft hyphen also as itself
case_ignorable ==
    {"'", ".", ":", "^", "U+0060", "¨", "U+00AD", "¯",
     "´", "·", "¸", "U+02B0", "U+02B1", "U+02B2", "U+02B3", "U+02B4",
     "U+02B5", "U+02B6", "U+02B7", "U+02B8", "U+02B9", "U+02BA", "U+02BB", "U+02BC",
     "U+02BD", "U+02BE", "U+02BF", "U+02C0", "U+02C1", "U+02C2", "U+02C3", "U+02C4",
     "U+02C5", "U+02C6", "U+02C7", "U+02C8", "U+02C9", "U+02CA", "U+02CB", "U+02CC",
     "U+02CD", "U+02CE", "U+02CF", "U+02D0", "U+02D1", "U+02D2", "U+02D3", "U+02D4",
     "U+02D5", "U+02D6", "U+02D7", "U+02D8", "U+02D9", "U+02DA", "U+02DB", "U+02DC",
     "U+02DD", "U+02DE", "U+02DF", "U+02E0", "U+02E1", "U+02E2", "U+02E3", "U+02E4",
     "U+02E5", "U+02E6", "U+02E7", "U+02E8", "U+02E9", "U+02EA", "U+02EB", "U+02EC",
     "U+02ED", "U+02EE", "U+02EF", "U+02F0", "U+02F1", "U+02F2", "U+02F3", "U+02F4",
     "U+02F5", "U+02F6", "U+02F7", "U+02F8", "U+02F9", "U+02FA", "U+02FB", "U+02FC",
     "U+02FD", "U+02FE", "U+02FF", "U+0300", "U+0301", "U+0302", "U+0303", "U+0304",
     "U+0305", "U+0306", "U+0307", "U+0308", "U+0309", "U+030A", "U+030B", "U+030C",
     "U+030D", "U+030E", "U+030F", "U+0310", "U+0311", "U+0312", "U+0313", "U+0314",
     "U+0315", "U+0316", "U+0317", "U+0318", "U+0319", "U+031A", "U+031B", "U+031C",
     "U+031D", "U+031E", "U+031F", "U+0320", "U+0321", "U+0322", "U+0323", "U+0324",
     "U+0325", "U+0326", "U+0327", "U+0328", "U+0329", "U+032A", "U+032B", "U+032C",
     "U+032D", "U+032E", "U+032F", "U+0330", "U+0331", "U+0332", "U+0333", "U+0334",
     "U+0335", "U+0336", "U+0337", "U+0338", "U+0339", "U+033A", "U+033B", "U+033C",
     "U+033D", "U+033E", "U+033F", "U+0340", "U+0341", "U+0342", "U+0343", "U+0344",
     "U+0345", "U+0346", "U+0347", "U+0348", "U+0349", "U+034A", "U+034B", "U+034C",
     "U+034D", "U+034E", "U+034F", "U+0350", "U+0351", "U+0352", "U+0353", "U+0354",
     "U+0355", "U+0356", "U+0357", "U+0358", "U+0359", "U+035A", "U+035B", "U+035C",
     "U+035D", "U+035E", "U+035F", "U+0360", "U+0361", "U+0362", "U+0363", "U+0364",
     "U+0365", "U+0366", "U+0367", "U+0368", "U+0369", "U+036A", "U+036B", "U+036C",
     "U+036D", "U+036E", "U+036F", "U+0374", "U+0375", "U+037A", "U+0384", "U+0385",
     "U+0387", "U+0483", "U+0484", "U+0485", "U+0486", "U+0487", "U+0488", "U+0489",
     "U+0559", "U+055F", "U+0591", "U+0592", "U+0593", "U+0594", "U+0595", "U+0596",
     "U+0597", "U+0598", "U+0599", "U+059A", "U+059B", "U+059C", "U+059D", "U+059E",
     "U+059F", "U+05A0", "U+05A1", "U+05A2", "U+05A3", "U+05A4", "U+05A5", "U+05A6",
     "U+05A7", "U+05A8", "U+05A9", "U+05AA", "U+05AB", "U+05AC", "U+05AD", "U+05AE",
     "U+05AF", "U+05B0", "U+05B1", "U+05B2", "U+05B3", "U+05B4", "U+05B5", "U+05B6",
     "U+05B7", "U+05B8", "U+05B9", "U+05BA", "U+05BB", "U+05BC", "U+05BD", "U+05BF",
     "U+05C1", "U+05C2", "U+05C4", "U+05C5", "U+05C7", "U+05F4", "U+0600", "U+0601",
     "U+0602", "U+0603", "U+0604", "U+0605", "U+0610", "U+0611", "U+0612", "U+0613",
     "U+0614", "U+0615", "U+0616", "U+0617", "U+0618", "U+0619", "U+061A", "U+061C",
     "U+0640", "U+064B", "U+064C", "U+064D", "U+064E", "U+064F", "U+0650", "U+0651",
     "U+0652", "U+0653", "U+0654", "U+0655", "U+0656", "U+0657", "U+0658", "U+0659",
     "U+065A", "U+065B", "U+065C", "U+065D", "U+065E", "U+065F", "U+0670", "U+06D6",
     "U+06D7", "U+06D8", "U+06D9", "U+06DA", "U+06DB", "U+06DC", "U+06DD", "U+06DF",
     "U+06E0", "U+06E1", "U+06E2", "U+06E3", "U+06E4", "U+06E5", "U+06E6", "U+06E7",
     "U+06E8", "U+06EA", "U+06EB", "U+06EC", "U+06ED", "U+070F", "U+0711", "U+0730",
     "U+0731", "U+0732", "U+0733", "U+0734", "U+0735", "U+0736", "U+0737", "U+0738",
     "U+0739", "U+073A", "U+073B", "U+073C", "U+073D", "U+073E", "U+073F", "U+0740",
     "U+0741", "U+0742", "U+0743", "U+0744", "U+0745", "U+0746", "U+0747", "U+0748",
     "U+0749", "U+074A", "U+07A6", "U+07A7", "U+07A8", "U+07A9", "U+07AA", "U+07AB",
     "U+07AC", "U+07AD", "U+07AE", "U+07AF", "U+07B0", "U+07EB", "U+07EC", "U+07ED",
     "U+07EE", "U+07EF", "U+07F0", "U+07F1", "U+07F2", "U+07F3", "U+07F4", "U+07F5",
     "U+07FA", "U+07FD", "U+0816", "U+0817", "U+0818", "U+0819", "U+081A", "U+081B",
     "U+081C", "U+081D", "U+081E", "U+081F", "U+0820", "U+0821", "U+0822", "U+0823",
     "U+0824", "U+0825", "U+0826", "U+0827", "U+0828", "U+0829", "U+082A", "U+082B",
     "U+082C", "U+082D", "U+0859", "U+085A", "U+085B", "U+0888", "U+0890", "U+0891",
     "U+0898", "U+0899", "U+089A", "U+089B", "U+089C", "U+089D", "U+089E", "U+089F",
     "U+08C9", "U+08CA", "U+08CB", "U+08CC", "U+08CD", "U+08CE", "U+08CF", "U+08D0",
     "U+08D1", "U+08D2", "U+08D3", "U+08D4", "U+08D5", "U+08D6", "U+08D7", "U+08D8",
     "U+08D9", "U+08DA", "U+08DB", "U+08DC", "U+08DD", "U+08DE", "U+08DF", "U+08E0",
     "U+08E1", "U+08E2", "U+08E3", "U+08E4", "U+08E5", "U+08E6", "U+08E7", "U+08E8",
     "U+08E9", "U+08EA", "U+08EB", "U+08EC", "U+08ED", "U+08EE", "U+08EF", "U+08F0",
     "U+08F1", "U+08F2", "U+08F3", "U+08F4", "U+08F5", "U+08F6", "U+08F7", "U+08F8",
     "U+08F9", "U+08FA", "U+08FB", "U+08FC", "U+08FD", "U+08FE", "U+08FF", "U+0900",
     "U+0901", "U+0902", "U+093A", "U+093C", "U+0941", "U+0942", "U+0943", "U+0944",
     "U+0945", "U+0946", "U+0947", "U+0948", "U+094D", "U+0951", "U+0952", "U+0953",
     "U+0954", "U+0955", "U+0956", "U+0957", "U+0962", "U+0963", "U+0971", "U+0981",
     "U+09BC", "U+09C1", "U+09C2", "U+09C3", "U+09C4", "U+09CD", "U+09E2", "U+09E3",
     "U+09FE", "U+0A01", "U+0A02", "U+0A3C", "U+0A41", "U+0A42", "U+0A47", "U+0A48",
     "U+0A4B", "U+0A4C", "U+0A4D", "U+0A51", "U+0A70", "U+0A71", "U+0A75", "U+0A81",
     "U+0A82", "U+0ABC", "U+0AC1", "U+0AC2", "U+0AC3", "U+0AC4", "U+0AC5", "U+0AC7",
     "U+0AC8", "U+0ACD", "U+0AE2", "U+0AE3", "U+0AFA", "U+0AFB", "U+0AFC", "U+0AFD",
     "U+0AFE", "U+0AFF", "U+0B01", "U+0B3C", "U+0B3F", "U+0B41", "U+0B42", "U+0B43",
     "U+0B44", "U+0B4D", "U+0B55", "U+0B56", "U+0B62", "U+0B63", "U+0B82", "U+0BC0",
     "U+0BCD", "U+0C00", "U+0C04", "U+0C3C", "U+0C3E", "U+0C3F", "U+0C40", "U+0C46",
     "U+0C47", "U+0C48", "U+0C4A", "U+0C4B", "U+0C4C", "U+0C4D", "U+0C55", "U+0C56",
     "U+0C62", "U+0C63", "U+0C81", "U+0CBC", "U+0CBF", "U+0CC6", "U+0CCC", "U+0CCD",
     "U+0CE2", "U+0CE3", "U+0D00", "U+0D01", "U+0D3B", "U+0D3C", "U+0D41", "U+0D42",
     "U+0D43", "U+0D44", "U+0D4D", "U+0D62", "U+0D63", "U+0D81", "U+0DCA", "U+0DD2",
     "U+0DD3", "U+0DD4", "U+0DD6", "U+0E31", "U+0E34", "U+0E35", "U+0E36", "U+0E37",
     "U+0E38", "U+0E39", "U+0E3A", "U+0E46", "U+0E47", "U+0E48", "U+0E49", "U+0E4A",
     "U+0E4B", "U+0E4C", "U+0E4D", "U+0E4E", "U+0EB1", "U+0EB4", "U+0EB5", "U+0EB6",
     "U+0EB7", "U+0EB8", "U+0EB9", "U+0EBA", "U+0EBB", "U+0EBC", "U+0EC6", "U+0EC8",
     "U+0EC9", "U+0ECA", "U+0ECB", "U+0ECC", "U+0ECD", "U+0F18", "U+0F19", "U+0F35",
     "U+0F37", "U+0F39", "U+0F71", "U+0F72", "U+0F73", "U+0F74", "U+0F75", "U+0F76",
     "U+0F77", "U+0F78", "U+0F79", "U+0F7A", "U+0F7B", "U+0F7C", "U+0F7D", "U+0F7E",
     "U+0F80", "U+0F81", "U+0F82", "U+0F83", "U+0F84", "U+0F86", "U+0F87", "U+0F8D",
     "U+0F8E", "U+0F8F", "U+0F90", "U+0F91", "U+0F92", "U+0F93", "U+0F94", "U+0F95",
     "U+0F96", "U+0F97", "U+0F99", "U+0F9A", "U+0F9B", "U+0F9C", "U+0F9D", "U+0F9E",
     "U+0F9F", "U+0FA0", "U+0FA1", "U+0FA2", "U+0FA3", "U+0FA4", "U+0FA5", "U+0FA6",
     "U+0FA7", "U+0FA8", "U+0FA9", "U+0FAA", "U+0FAB", "U+0FAC", "U+0FAD", "U+0FAE",
     "U+0FAF", "U+0FB0", "U+0FB1", "U+0FB2", "U+0FB3", "U+0FB4", "U+0FB5", "U+0FB6",
     "U+0FB7", "U+0FB8", "U+0FB9", "U+0FBA", "U+0FBB", "U+0FBC", "U+0FC6", "U+102D",
     "U+102E", "U+102F", "U+1030", "U+1032", "U+1033", "U+1034", "U+1035", "U+1036",
     "U+1037", "U+1039", "U+103A", "U+103D", "U+103E", "U+1058", "U+1059", "U+105E",
     "U+105F", "U+1060", "U+1071", "U+1072", "U+1073", "U+1074", "U+1082", "U+1085",
     "U+1086", "U+108D", "U+109D", "U+10FC", "U+135D", "U+135E", "U+135F", "U+1712",
     "U+1713", "U+1714", "U+1732", "U+1733", "U+1752", "U+1753", "U+1772", "U+1773",
     "U+17B4", "U+17B5", "U+17B7", "U+17B8", "U+17B9", "U+17BA", "U+17BB", "U+17BC",
     "U+17BD", "U+17C6", "U+17C9", "U+17CA", "U+17CB", "U+17CC", "U+17CD", "U+17CE",
     "U+17CF", "U+17D0", "U+17D1", "U+17D2", "U+17D3", "U+17D7", "U+17DD", "U+180B",
     "U+180C", "U+180D", "U+180E", "U+180F", "U+1843", "U+1885", "U+1886", "U+18A9",
     "U+1920", "U+1921", "U+1922", "U+1927", "U+1928", "U+1932", "U+1939", "U+193A",
     "U+193B", "U+1A17", "U+1A18", "U+1A1B", "U+1A56", "U+1A58", "U+1A59", "U+1A5A",
     "U+1A5B", "U+1A5C", "U+1A5D", "U+1A5E", "U+1A60", "U+1A62", "U+1A65", "U+1A66",
     "U+1A67", "U+1A68", "U+1A69", "U+1A6A", "U+1A6B", "U+1A6C", "U+1A73", "U+1A74",
     "U+1A75", "U+1A76", "U+1A77", "U+1A78", "U+1A79", "U+1A7A", "U+1A7B", "U+1A7C",
     "U+1A7F", "U+1AA7", "U+1AB0", "U+1AB1", "U+1AB2", "U+1AB3", "U+1AB4", "U+1AB5",
     "U+1AB6", "U+1AB7", "U+1AB8", "U+1AB9", "U+1ABA", "U+1ABB", "U+1ABC", "U+1ABD",
     "U+1ABE", "U+1ABF", "U+1AC0", "U+1AC1", "U+1AC2", "U+1AC3", "U+1AC4", "U+1AC5",
     "U+1AC6", "U+1AC7", "U+1AC8", "U+1AC9", "U+1ACA", "U+1ACB", "U+1ACC", "U+1ACD",
     "U+1ACE", "U+1B00", "U+1B01", "U+1B02", "U+1B03", "U+1B34", "U+1B36", "U+1B37",
     "U+1B38", "U+1B39", "U+1B3A", "U+1B3C", "U+1B42", "U+1B6B", "U+1B6C", "U+1B6D",
     "U+1B6E", "U+1B6F", "U+1B70", "U+1B71", "U+1B72", "U+1B73", "U+1B80", "U+1B81",
     "U+1BA2", "U+1BA3", "U+1BA4", "U+1BA5", "U+1BA8", "U+1BA9", "U+1BAB", "U+1BAC",
     "U+1BAD", "U+1BE6", "U+1BE8", "U+1BE9", "U+1BED", "U+1BEF", "U+1BF0", "U+1BF1",
     "U+1C2C", "U+1C2D", "U+1C2E", "U+1C2F", "U+1C30", "U+1C31", "U+1C32", "U+1C33",
     "U+1C36", "U+1C37", "U+1C78", "U+1C79", "U+1C7A", "U+1C7B", "U+1C7C", "U+1C7D",
     "U+1CD0", "U+1CD1", "U+1CD2", "U+1CD4", "U+1CD5", "U+1CD6", "U+1CD7", "U+1CD8",
     "U+1CD9", "U+1CDA", "U+1CDB", "U+1CDC", "U+1CDD", "U+1CDE", "U+1CDF", "U+1CE0",
     "U+1CE2", "U+1CE3", "U+1CE4", "U+1CE5", "U+1CE6", "U+1CE7", "U+1CE8", "U+1CED",
     "U+1CF4", "U+1CF8", "U+1CF9", "U+1D2C", "U+1D2D", "U+1D2E", "U+1D2F", "U+1D30",
     "U+1D31", "U+1D32", "U+1D33", "U+1D34", "U+1D35", "U+1D36", "U+1D37", "U+1D38",
     "U+1D39", "U+1D3A", "U+1D3B", "U+1D3C", "U+1D3D", "U+1D3E", "U+1D3F", "U+1D40",
     "U+1D41", "U+1D42", "U+1D43", "U+1D44", "U+1D45", "U+1D46", "U+1D47", "U+1D48",
     "U+1D49", "U+1D4A", "U+1D4B", "U+1D4C", "U+1D4D", "U+1D4E", "U+1D4F", "U+1D50",
     "U+1D51", "U+1D52", "U+1D53", "U+1D54", "U+1D55", "U+1D56", "U+1D57", "U+1D58",
     "U+1D59", "U+1D5A", "U+1D5B", "U+1D5C", "U+1D5D", "U+1D5E", "U+1D5F", "U+1D60",
     "U+1D61", "U+1D62", "U+1D63", "U+1D64", "U+1D65", "U+1D66", "U+1D67", "U+1D68",
     "U+1D69", "U+1D6A", "U+1D78", "U+1D9B", "U+1D9C", "U+1D9D", "U+1D9E", "U+1D9F",
     "U+1DA0", "U+1DA1", "U+1DA2", "U+1DA3", "U+1DA4", "U+1DA5", "U+1DA6", "U+1DA7",
     "U+1DA8", "U+1DA9", "U+1DAA", "U+1DAB", "U+1DAC", "U+1DAD", "U+1DAE", "U+1DAF",
     "U+1DB0", "U+1DB1", "U+1DB2", "U+1DB3", "U+1DB4", "U+1DB5", "U+1DB6", "U+1DB7",
     "U+1DB8", "U+1DB9", "U+1DBA", "U+1DBB", "U+1DBC", "U+1DBD", "U+1DBE", "U+1DBF",
     "U+1DC0", "U+1DC1", "U+1DC2", "U+1DC3", "U+1DC4", "U+1DC5", "U+1DC6", "U+1DC7",
     "U+1DC8", "U+1DC9", "U+1DCA", "U+1DCB", "U+1DCC", "U+1DCD", "U+1DCE", "U+1DCF",
     "U+1DD0", "U+1DD1", "U+1DD2", "U+1DD3", "U+1DD4", "U+1DD5", "U+1DD6", "U+1DD7",
     "U+1DD8", "U+1DD9", "U+1DDA", "U+1DDB", "U+1DDC", "U+1DDD", "U+1DDE", "U+1DDF",
     "U+1DE0", "U+1DE1", "U+1DE2", "U+1DE3", "U+1DE4", "U+1DE5", "U+1DE6", "U+1DE7",
     "U+1DE8", "U+1DE9", "U+1DEA", "U+1DEB", "U+1DEC", "U+1DED", "U+1DEE", "U+1DEF",
     "U+1DF0", "U+1DF1", "U+1DF2", "U+1DF3", "U+1DF4", "U+1DF5", "U+1DF6", "U+1DF7",
     "U+1DF8", "U+1DF9", "U+1DFA", "U+1DFB", "U+1DFC", "U+1DFD", "U+1DFE", "U+1DFF",
     "U+1FBD", "U+1FBF", "U+1FC0", "U+1FC1", "U+1FCD", "U+1FCE", "U+1FCF", "U+1FDD",
     "U+1FDE", "U+1FDF", "U+1FED", "U+1FEE", "U+1FEF", "U+1FFD", "U+1FFE", "U+200B",
     "U+200C", "U+200D", "U+200E", "U+200F", "U+2018", "U+2019", "U+2024", "U+2027",
     "U+202A", "U+202B", "U+202C", "U+202D", "U+202E", "U+2060", "U+2061", "U+2062",
     "U+2063", "U+2064", "U+2066", "U+2067", "U+2068", "U+2069", "U+206A", "U+206B",
     "U+206C", "U+206D", "U+206E", "U+206F", "U+2071", "U+207F", "U+2090", "U+2091",
     "U+2092", "U+2093", "U+2094", "U+2095", "U+2096", "U+2097", "U+2098", "U+2099",
     "U+209A", "U+209B", "U+209C", "U+20D0", "U+20D1", "U+20D2", "U+20D3", "U+20D4",
     "U+20D5", "U+20D6", "U+20D7", "U+20D8", "U+20D9", "U+20DA", "U+20DB", "U+20DC",
     "U+20DD", "U+20DE", "U+20DF", "U+20E0", "U+20E1", "U+20E2", "U+20E3", "U+20E4",
     "U+20E5", "U+20E6", "U+20E7", "U+20E8", "U+20E9", "U+20EA", "U+20EB", "U+20EC",
     "U+20ED", "U+20EE", "U+20EF", "U+20F0", "U+2C7C", "U+2C7D", "U+2CEF", "U+2CF0",
     "U+2CF1", "U+2D6F", "U+2D7F", "U+2DE0", "U+2DE1", "U+2DE2", "U+2DE3", "U+2DE4",
     "U+2DE5", "U+2DE6", "U+2DE7", "U+2DE8", "U+2DE9", "U+2DEA", "U+2DEB", "U+2DEC",
     "U+2DED", "U+2DEE", "U+2DEF", "U+2DF0", "U+2DF1", "U+2DF2", "U+2DF3", "U+2DF4",
     "U+2DF5", "U+2DF6", "U+2DF7", "U+2DF8", "U+2DF9", "U+2DFA", "U+2DFB", "U+2DFC",
     "U+2DFD", "U+2DFE", "U+2DFF", "U+2E2F", "U+3005", "U+302A", "U+302B", "U+302C",
     "U+302D", "U+3031", "U+3032", "U+3033", "U+3034", "U+3035", "U+303B", "U+3099",
     "U+309A", "U+309B", "U+309C", "U+309D", "U+309E", "U+30FC", "U+30FD", "U+30FE",
     "U+A015", "U+A4F8", "U+A4F9", "U+A4FA", "U+A4FB", "U+A4FC", "U+A4FD", "U+A60C",
     "U+A66F", "U+A670", "U+A671", "U+A672", "U+A674", "U+A675", "U+A676", "U+A677",
     "U+A678", "U+A679", "U+A67A", "U+A67B", "U+A67C", "U+A67D", "U+A67F", "U+A69C",
     "U+A69D", "U+A69E", "U+A69F", "U+A6F0", "U+A6F1", "U+A700", "U+A701", "U+A702",
     "U+A703", "U+A704", "U+A705", "U+A706", "U+A707", "U+A708", "U+A709", "U+A70A",
     "U+A70B", "U+A70C", "U+A70D", "U+A70E", "U+A70F", "U+A710", "U+A711", "U+A712",
     "U+A713", "U+A714", "U+A715", "U+A716", "U+A717", "U+A718", "U+A719", "U+A71A",
     "U+A71B", "U+A71C", "U+A71D", "U+A71E", "U+A71F", "U+A720", "U+A721", "U+A770",
     "U+A788", "U+A789", "U+A78A", "U+A7F2", "U+A7F3", "U+A7F4", "U+A7F8", "U+A7F9",
     "U+A802", "U+A806", "U+A80B", "U+A825", "U+A826", "U+A82C", "U+A8C4", "U+A8C5",
     "U+A8E0", "U+A8E1", "U+A8E2", "U+A8E3", "U+A8E4", "U+A8E5", "U+A8E6", "U+A8E7",
     "U+A8E8", "U+A8E9", "U+A8EA", "U+A8EB", "U+A8EC", "U+A8ED", "U+A8EE", "U+A8EF",
     "U+A8F0", "U+A8F1", "U+A8FF", "U+A926", "U+A927", "U+A928", "U+A929", "U+A92A",
     "U+A92B", "U+A92C", "U+A92D", "U+A947", "U+A948", "U+A949", "U+A94A", "U+A94B",
     "U+A94C", "U+A94D", "U+A94E", "U+A94F", "U+A950", "U+A951", "U+A980", "U+A981",
     "U+A982", "U+A9B3", "U+A9B6", "U+A9B7", "U+A9B8", "U+A9B9", "U+A9BC", "U+A9BD",
     "U+A9CF", "U+A9E5", "U+A9E6", "U+AA29", "U+AA2A", "U+AA2B", "U+AA2C", "U+AA2D",
     "U+AA2E", "U+AA31", "U+AA32", "U+AA35", "U+AA36", "U+AA43", "U+AA4C", "U+AA70",
     "U+AA7C", "U+AAB0", "U+AAB2", "U+AAB3", "U+AAB4", "U+AAB7", "U+AAB8", "U+AABE",
     "U+AABF", "U+AAC1", "U+AADD", "U+AAEC", "U+AAED", "U+AAF3", "U+AAF4", "U+AAF6",
     "U+AB5B", "U+AB5C", "U+AB5D", "U+AB5E", "U+AB5F", "U+AB69", "U+AB6A", "U+AB6B",
     "U+ABE5", "U+ABE8", "U+ABED", "U+FB1E", "U+FBB2", "U+FBB3", "U+FBB4", "U+FBB5",
     "U+FBB6", "U+FBB7", "U+FBB8", "U+FBB9", "U+FBBA", "U+FBBB", "U+FBBC", "U+FBBD",
     "U+FBBE", "U+FBBF", "U+FBC0", "U+FBC1", "U+FBC2", "U+FE00", "U+FE01", "U+FE02",
     "U+FE03", "U+FE04", "U+FE05", "U+FE06", "U+FE07", "U+FE08", "U+FE09", "U+FE0A",
     "U+FE0B", "U+FE0C", "U+FE0D", "U+FE0E", "U+FE0F", "U+FE13", "U+FE20", "U+FE21",
     "U+FE22", "U+FE23", "U+FE24", "U+FE25", "U+FE26", "U+FE27", "U+FE28", "U+FE29",
     "U+FE2A", "U+FE2B", "U+FE2C", "U+FE2D", "U+FE2E", "U+FE2F", "U+FE52", "U+FE55",
     "U+FEFF", "U+FF07", "U+FF0E", "U+FF1A", "U+FF3E", "U+FF40", "U+FF70", "U+FF9E",
     "U+FF9F", "U+FFE3", "U+FFF9", "U+FFFA", "U+FFFB", "U+101FD", "U+102E0", "U+10376",
     "U+10377", "U+10378", "U+10379", "U+1037A", "U+10780", "U+10781", "U+10782", "U+10783",
     "U+10784", "U+10785", "U+10787", "U+10788", "U+10789", "U+1078A", "U+1078B", "U+1078C",
     "U+1078D", "U+1078E", "U+1078F", "U+10790", "U+10791", "U+10792", "U+10793", "U+10794",
     "U+10795", "U+10796", "U+10797", "U+10798", "U+10799", "U+1079A", "U+1079B", "U+1079C",
     "U+1079D", "U+1079E", "U+1079F", "U+107A0", "U+107A1", "U+107A2", "U+107A3", "U+107A4",
     "U+107A5", "U+107A6", "U+107A7", "U+107A8", "U+107A9", "U+107AA", "U+107AB", "U+107AC",
     "U+107AD", "U+107AE", "U+107AF", "U+107B0", "U+107B2", "U+107B3", "U+107B4", "U+107B5",
     "U+107B6", "U+107B7", "U+107B8", "U+107B9", "U+107BA", "U+10A01", "U+10A02", "U+10A03",
     "U+10A05", "U+10A06", "U+10A0C", "U+10A0D", "U+10A0E", "U+10A0F", "U+10A38", "U+10A39",
     "U+10A3A", "U+10A3F", "U+10AE5", "U+10AE6", "U+10D24", "U+10D25", "U+10D26", "U+10D27",
     "U+10EAB", "U+10EAC", "U+10F46", "U+10F47", "U+10F48", "U+10F49", "U+10F4A", "U+10F4B",
     "U+10F4C", "U+10F4D", "U+10F4E", "U+10F4F", "U+10F50", "U+10F82", "U+10F83", "U+10F84",
     "U+10F85", "U+11001", "U+11038", "U+11039", "U+1103A", "U+1103B", "U+1103C", "U+1103D",
     "U+1103E", "U+1103F", "U+11040", "U+11041", "U+11042", "U+11043", "U+11044", "U+11045",
     "U+11046", "U+11070", "U+11073", "U+11074", "U+1107F", "U+11080", "U+11081", "U+110B3",
     "U+110B4", "U+110B5", "U+110B6", "U+110B9", "U+110BA", "U+110BD", "U+110C2", "U+110CD",
     "U+11100", "U+11101", "U+11102", "U+11127", "U+11128", "U+11129", "U+1112A", "U+1112B",
     "U+1112D", "U+1112E", "U+1112F", "U+11130", "U+11131", "U+11132", "U+11133", "U+11134",
     "U+11173", "U+11180", "U+11181", "U+111B6", "U+111B7", "U+111B8", "U+111B9", "U+111BA",
     "U+111BB", "U+111BC", "U+111BD", "U+111BE", "U+111C9", "U+111CA", "U+111CB", "U+111CC",
     "U+111CF", "U+1122F", "U+11230", "U+11231", "U+11234", "U+11236", "U+11237", "U+1123E",
     "U+112DF", "U+112E3", "U+112E4", "U+112E5", "U+112E6", "U+112E7", "U+112E8", "U+112E9",
     "U+112EA", "U+11300", "U+11301", "U+1133B", "U+1133C", "U+11340", "U+11366", "U+11367",
     "U+11368", "U+11369", "U+1136A", "U+1136B", "U+1136C", "U+11370", "U+11371", "U+11372",
     "U+11373", "U+11374", "U+11438", "U+11439", "U+1143A", "U+1143B", "U+1143C", "U+1143D",
     "U+1143E", "U+1143F", "U+11442", "U+11443", "U+11444", "U+11446", "U+1145E", "U+114B3",
     "U+114B4", "U+114B5", "U+114B6", "U+114B7", "U+114B8", "U+114BA", "U+114BF", "U+114C0",
     "U+114C2", "U+114C3", "U+115B2", "U+115B3", "U+115B4", "U+115B5", "U+115BC", "U+115BD",
     "U+115BF", "U+115C0", "U+115DC", "U+115DD", "U+11633", "U+11634", "U+11635", "U+11636",
     "U+11637", "U+11638", "U+11639", "U+1163A", "U+1163D", "U+1163F", "U+11640", "U+116AB",
     "U+116AD", "U+116B0", "U+116B1", "U+116B2", "U+116B3", "U+116B4", "U+116B5", "U+116B7",
     "U+1171D", "U+1171E", "U+1171F", "U+11722", "U+11723", "U+11724", "U+11725", "U+11727",
     "U+11728", "U+11729", "U+1172A", "U+1172B", "U+1182F", "U+11830", "U+11831", "U+11832",
     "U+11833", "U+11834", "U+11835", "U+11836", "U+11837", "U+11839", "U+1183A", "U+1193B",
     "U+1193C", "U+1193E", "U+11943", "U+119D4", "U+119D5", "U+119D6", "U+119D7", "U+119DA",
     "U+119DB", "U+119E0", "U+11A01", "U+11A02", "U+11A03", "U+11A04", "U+11A05", "U+11A06",
     "U+11A07", "U+11A08", "U+11A09", "U+11A0A", "U+11A33", "U+11A34", "U+11A35", "U+11A36",
     "U+11A37", "U+11A38", "U+11A3B", "U+11A3C", "U+11A3D", "U+11A3E", "U+11A47", "U+11A51",
     "U+11A52", "U+11A53", "U+11A54", "U+11A55", "U+11A56", "U+11A59", "U+11A5A", "U+11A5B",
     "U+11A8A", "U+11A8B", "U+11A8C", "U+11A8D", "U+11A8E", "U+11A8F", "U+11A90", "U+11A91",
     "U+11A92", "U+11A93", "U+11A94", "U+11A95", "U+11A96", "U+11A98", "U+11A99", "U+11C30",
     "U+11C31", "U+11C32", "U+11C33", "U+11C34", "U+11C35", "U+11C36", "U+11C38", "U+11C39",
     "U+11C3A", "U+11C3B", "U+11C3C", "U+11C3D", "U+11C3F", "U+11C92", "U+11C93", "U+11C94",
     "U+11C95", "U+11C96", "U+11C97", "U+11C98", "U+11C99", "U+11C9A", "U+11C9B", "U+11C9C",
     "U+11C9D", "U+11C9E", "U+11C9F", "U+11CA0", "U+11CA1", "U+11CA2", "U+11CA3", "U+11CA4",
     "U+11CA5", "U+11CA6", "U+11CA7", "U+11CAA", "U+11CAB", "U+11CAC", "U+11CAD", "U+11CAE",
     "U+11CAF", "U+11CB0", "U+11CB2", "U+11CB3", "U+11CB5", "U+11CB6", "U+11D31", "U+11D32",
     "U+11D33", "U+11D34", "U+11D35", "U+11D36", "U+11D3A", "U+11D3C", "U+11D3D", "U+11D3F",
     "U+11D40", "U+11D41", "U+11D42", "U+11D43", "U+11D44", "U+11D45", "U+11D47", "U+11D90",
     "U+11D91", "U+11D95", "U+11D97", "U+11EF3", "U+11EF4", "U+13430", "U+13431", "U+13432",
     "U+13433", "U+13434", "U+13435", "U+13436", "U+13437", "U+13438", "U+16AF0", "U+16AF1",
     "U+16AF2", "U+16AF3", "U+16AF4", "U+16B30", "U+16B31", "U+16B32", "U+16B33", "U+16B34",
     "U+16B35", "U+16B36", "U+16B40", "U+16B41", "U+16B42", "U+16B43", "U+16F4F", "U+16F8F",
     "U+16F90", "U+16F91", "U+16F92", "U+16F93", "U+16F94", "U+16F95", "U+16F96", "U+16F97",
     "U+16F98", "U+16F99", "U+16F9A", "U+16F9B", "U+16F9C", "U+16F9D", "U+16F9E", "U+16F9F",
     "U+16FE0", "U+16FE1", "U+16FE3", "U+16FE4", "U+1AFF0", "U+1AFF1", "U+1AFF2", "U+1AFF3",
     "U+1AFF5", "U+1AFF6", "U+1AFF7", "U+1AFF8", "U+1AFF9", "U+1AFFA", "U+1AFFB", "U+1AFFD",
     "U+1AFFE", "U+1BC9D", "U+1BC9E", "U+1BCA0", "U+1BCA1", "U+1BCA2", "U+1BCA3", "U+1CF00",
     "U+1CF01", "U+1CF02", "U+1CF03", "U+1CF04", "U+1CF05", "U+1CF06", "U+1CF07", "U+1CF08",
     "U+1CF09", "U+1CF0A", "U+1CF0B", "U+1CF0C", "U+1CF0D", "U+1CF0E", "U+1CF0F", "U+1CF10",
     "U+1CF11", "U+1CF12", "U+1CF13", "U+1CF14", "U+1CF15", "U+1CF16", "U+1CF17", "U+1CF18",
     "U+1CF19", "U+1CF1A", "U+1CF1B", "U+1CF1C", "U+1CF1D", "U+1CF1E", "U+1CF1F", "U+1CF20",
     "U+1CF21", "U+1CF22", "U+1CF23", "U+1CF24", "U+1CF25", "U+1CF26", "U+1CF27", "U+1CF28",
     "U+1CF29", "U+1CF2A", "U+1CF2B", "U+1CF2C", "U+1CF2D", "U+1CF30", "U+1CF31", "U+1CF32",
     "U+1CF33", "U+1CF34", "U+1CF35", "U+1CF36", "U+1CF37", "U+1CF38", "U+1CF39", "U+1CF3A",
     "U+1CF3B", "U+1CF3C", "U+1CF3D", "U+1CF3E", "U+1CF3F", "U+1CF40", "U+1CF41", "U+1CF42",
     "U+1CF43", "U+1CF44", "U+1CF45", "U+1CF46", "U+1D167", "U+1D168", "U+1D169", "U+1D173",
     "U+1D174", "U+1D175", "U+1D176", "U+1D177", "U+1D178", "U+1D179", "U+1D17A", "U+1D17B",
     "U+1D17C", "U+1D17D", "U+1D17E", "U+1D17F", "U+1D180", "U+1D181", "U+1D182", "U+1D185",
     "U+1D186", "U+1D187", "U+1D188", "U+1D189", "U+1D18A", "U+1D18B", "U+1D1AA", "U+1D1AB",
     "U+1D1AC", "U+1D1AD", "U+1D242", "U+1D243", "U+1D244", "U+1DA00", "U+1DA01", "U+1DA02",
     "U+1DA03", "U+1DA04", "U+1DA05", "U+1DA06", "U+1DA07", "U+1DA08", "U+1DA09", "U+1DA0A",
     "U+1DA0B", "U+1DA0C", "U+1DA0D", "U+1DA0E", "U+1DA0F", "U+1DA10", "U+1DA11", "U+1DA12",
     "U+1DA13", "U+1DA14", "U+1DA15", "U+1DA16", "U+1DA17", "U+1DA18", "U+1DA19", "U+1DA1A",
     "U+1DA1B", "U+1DA1C", "U+1DA1D", "U+1DA1E", "U+1DA1F", "U+1DA20", "U+1DA21", "U+1DA22",
     "U+1DA23", "U+1DA24", "U+1DA25", "U+1DA26", "U+1DA27", "U+1DA28", "U+1DA29", "U+1DA2A",
     "U+1DA2B", "U+1DA2C", "U+1DA2D", "U+1DA2E", "U+1DA2F", "U+1DA30", "U+1DA31", "U+1DA32",
     "U+1DA33", "U+1DA34", "U+1DA35", "U+1DA36", "U+1DA3B", "U+1DA3C", "U+1DA3D", "U+1DA3E",
     "U+1DA3F", "U+1DA40", "U+1DA41", "U+1DA42", "U+1DA43", "U+1DA44", "U+1DA45", "U+1DA46",
     "U+1DA47", "U+1DA48", "U+1DA49", "U+1DA4A", "U+1DA4B", "U+1DA4C", "U+1DA4D", "U+1DA4E",
     "U+1DA4F", "U+1DA50", "U+1DA51", "U+1DA52", "U+1DA53", "U+1DA54", "U+1DA55", "U+1DA56",
     "U+1DA57", "U+1DA58", "U+1DA59", "U+1DA5A", "U+1DA5B", "U+1DA5C", "U+1DA5D", "U+1DA5E",
     "U+1DA5F", "U+1DA60", "U+1DA61", "U+1DA62", "U+1DA63", "U+1DA64", "U+1DA65", "U+1DA66",
     "U+1DA67", "U+1DA68", "U+1DA69", "U+1DA6A", "U+1DA6B", "U+1DA6C", "U+1DA75", "U+1DA84",
     "U+1DA9B", "U+1DA9C", "U+1DA9D", "U+1DA9E", "U+1DA9F", "U+1DAA1", "U+1DAA2", "U+1DAA3",
     "U+1DAA4", "U+1DAA5", "U+1DAA6", "U+1DAA7", "U+1DAA8", "U+1DAA9", "U+1DAAA", "U+1DAAB",
     "U+1DAAC", "U+1DAAD", "U+1DAAE", "U+1DAAF", "U+1E000", "U+1E001", "U+1E002", "U+1E003",
     "U+1E004", "U+1E005", "U+1E006", "U+1E008", "U+1E009", "U+1E00A", "U+1E00B", "U+1E00C",
     "U+1E00D", "U+1E00E", "U+1E00F", "U+1E010", "U+1E011", "U+1E012", "U+1E013", "U+1E014",
     "U+1E015", "U+1E016", "U+1E017", "U+1E018", "U+1E01B", "U+1E01C", "U+1E01D", "U+1E01E",
     "U+1E01F", "U+1E020", "U+1E021", "U+1E023", "U+1E024", "U+1E026", "U+1E027", "U+1E028",
     "U+1E029", "U+1E02A", "U+1E130", "U+1E131", "U+1E132", "U+1E133", "U+1E134", "U+1E135",
     "U+1E136", "U+1E137", "U+1E138", "U+1E139", "U+1E13A", "U+1E13B", "U+1E13C", "U+1E13D",
     "U+1E2AE", "U+1E2EC", "U+1E2ED", "U+1E2EE", "U+1E2EF", "U+1E8D0", "U+1E8D1", "U+1E8D2",
     "U+1E8D3", "U+1E8D4", "U+1E8D5", "U+1E8D6", "U+1E944", "U+1E945", "U+1E946", "U+1E947",
     "U+1E948", "U+1E949", "U+1E94A", "U+1E94B", "U+1F3FB", "U+1F3FC", "U+1F3FD", "U+1F3FE",
     "U+1F3FF", "U+E0001", "U+E0020", "U+E0021", "U+E0022", "U+E0023", "U+E0024", "U+E0025",
     "U+E0026", "U+E0027", "U+E0028", "U+E0029", "U+E002A", "U+E002B", "U+E002C", "U+E002D",
     "U+E002E", "U+E002F", "U+E0030", "U+E0031", "U+E0032", "U+E0033", "U+E0034", "U+E0035",
     "U+E0036", "U+E0037", "U+E0038", "U+E0039", "U+E003A", "U+E003B", "U+E003C", "U+E003D",
     "U+E003E", "U+E003F", "U+E0040", "U+E0041", "U+E0042", "U+E0043", "U+E0044", "U+E0045",
     "U+E0046", "U+E0047", "U+E0048", "U+E0049", "U+E004A", "U+E004B", "U+E004C", "U+E004D",
     "U+E004E", "U+E004F", "U+E0050", "U+E0051", "U+E0052", "U+E0053", "U+E0054", "U+E0055",
     "U+E0056", "U+E0057", "U+E0058", "U+E0059", "U+E005A", "U+E005B", "U+E005C", "U+E005D",
     "U+E005E", "U+E005F", "U+E0060", "U+E0061", "U+E0062", "U+E0063", "U+E0064", "U+E0065",
     "U+E0066", "U+E0067", "U+E0068", "U+E0069", "U+E006A", "U+E006B", "U+E006C", "U+E006D",
     "U+E006E", "U+E006F", "U+E0070", "U+E0071", "U+E0072", "U+E0073", "U+E0074", "U+E0075",
     "U+E0076", "U+E0077", "U+E0078", "U+E0079", "U+E007A", "U+E007B", "U+E007C", "U+E007D",
     "U+E007E", "U+E007F", "U+E0100", "U+E0101", "U+E0102", "U+E0103", "U+E0104", "U+E0105",
     "U+E0106", "U+E0107", "U+E0108", "U+E0109", "U+E010A", "U+E010B", "U+E010C", "U+E010D",
     "U+E010E", "U+E010F", "U+E0110", "U+E0111", "U+E0112", "U+E0113", "U+E0114", "U+E0115",
     "U+E0116", "U+E0117", "U+E0118", "U+E0119", "U+E011A", "U+E011B", "U+E011C", "U+E011D",
     "U+E011E", "U+E011F", "U+E0120", "U+E0121", "U+E0122", "U+E0123", "U+E0124", "U+E0125",
     "U+E0126", "U+E0127", "U+E0128", "U+E0129", "U+E012A", "U+E012B", "U+E012C", "U+E012D",
     "U+E012E", "U+E012F", "U+E0130", "U+E0131", "U+E0132", "U+E0133", "U+E0134", "U+E0135",
     "U+E0136", "U+E0137", "U+E0138", "U+E0139", "U+E013A", "U+E013B", "U+E013C", "U+E013D",
     "U+E013E", "U+E013F", "U+E0140", "U+E0141", "U+E0142", "U+E0143", "U+E0144", "U+E0145",
     "U+E0146", "U+E0147", "U+E0148", "U+E0149", "U+E014A", "U+E014B", "U+E014C", "U+E014D",
     "U+E014E", "U+E014F", "U+E0150", "U+E0151", "U+E0152", "U+E0153", "U+E0154", "U+E0155",
     "U+E0156", "U+E0157", "U+E0158", "U+E0159", "U+E015A", "U+E015B", "U+E015C", "U+E015D",
     "U+E015E", "U+E015F", "U+E0160", "U+E0161", "U+E0162", "U+E0163", "U+E0164", "U+E0165",
     "U+E0166", "U+E0167", "U+E0168", "U+E0169", "U+E016A", "U+E016B", "U+E016C", "U+E016D",
     "U+E016E", "U+E016F", "U+E0170", "U+E0171", "U+E0172", "U+E0173", "U+E0174", "U+E0175",
     "U+E0176", "U+E0177", "U+E0178", "U+E0179", "U+E017A", "U+E017B", "U+E017C", "U+E017D",
     "U+E017E", "U+E017F", "U+E0180", "U+E0181", "U+E0182", "U+E0183", "U+E0184", "U+E0185",
     "U+E0186", "U+E0187", "U+E0188", "U+E0189", "U+E018A", "U+E018B", "U+E018C", "U+E018D",
     "U+E018E", "U+E018F", "U+E0190", "U+E0191", "U+E0192", "U+E0193", "U+E0194", "U+E0195",
     "U+E0196", "U+E0197", "U+E0198", "U+E0199", "U+E019A", "U+E019B", "U+E019C", "U+E019D",
     "U+E019E", "U+E019F", "U+E01A0", "U+E01A1", "U+E01A2", "U+E01A3", "U+E01A4", "U+E01A5",
     "U+E01A6", "U+E01A7", "U+E01A8", "U+E01A9", "U+E01AA", "U+E01AB", "U+E01AC", "U+E01AD",
     "U+E01AE", "U+E01AF", "U+E01B0", "U+E01B1", "U+E01B2", "U+E01B3", "U+E01B4", "U+E01B5",
     "U+E01B6", "U+E01B7", "U+E01B8", "U+E01B9", "U+E01BA", "U+E01BB", "U+E01BC", "U+E01BD",
     "U+E01BE", "U+E01BF", "U+E01C0", "U+E01C1", "U+E01C2", "U+E01C3", "U+E01C4", "U+E01C5",
     "U+E01C6", "U+E01C7", "U+E01C8", "U+E01C9", "U+E01CA", "U+E01CB", "U+E01CC", "U+E01CD",
     "U+E01CE", "U+E01CF", "U+E01D0", "U+E01D1", "U+E01D2", "U+E01D3", "U+E01D4", "U+E01D5",
     "U+E01D6", "U+E01D7", "U+E01D8", "U+E01D9", "U+E01DA", "U+E01DB", "U+E01DC", "U+E01DD",
     "U+E01DE", "U+E01DF", "U+E01E0", "U+E01E1", "U+E01E2", "U+E01E3", "U+E01E4", "U+E01E5",
     "U+E01E6", "U+E01E7", "U+E01E8", "U+E01E9", "U+E01EA", "U+E01EB", "U+E01EC", "U+E01ED",
     "U+E01EE", "U+E01EF", "­"}


\* the mappings as functions of the character, and their domains
to_upper == [c \in Range(upper_chars) |-> upper_single[index_in(upper_chars, c)]]
to_lower == [c \in Range(lower_chars) |-> lower_single[index_in(lower_chars, c)]]
upper_changed == Range(upper_chars)
lower_changed == Range(lower_chars)
upper_expanded == Range(upper_full_chars)
lower_expanded == Range(lower_full_chars)

\* the cased characters: a character that a case mapping changes is cased
cased ==
    Range(ascii_lowercase) \cup Range(ascii_uppercase)
        \cup upper_changed \cup lower_changed \cup upper_expanded \cup lower_expanded
        \cup other_cased

\* str.upper() of one character, a text
upper_char(c) ==
    IF c \in Range(ascii_lowercase) THEN <<ascii_uppercase[index_in(ascii_lowercase, c)]>>
    ELSE IF c \in upper_changed THEN <<to_upper[c]>>
    ELSE IF c \in upper_expanded THEN upper_full_texts[index_in(upper_full_chars, c)]
    ELSE <<c>>

\* str.lower() of one character, a text
lower_char(c) ==
    IF c \in Range(ascii_uppercase) THEN <<ascii_lowercase[index_in(ascii_uppercase, c)]>>
    ELSE IF c \in lower_changed THEN <<to_lower[c]>>
    ELSE IF c \in lower_expanded THEN lower_full_texts[index_in(lower_full_chars, c)]
    ELSE <<c>>

\* str.upper(): character by character, the text taken by halves
RECURSIVE upper_range(_, _, _)
upper_range(s, lo, hi) ==
    IF lo > hi THEN <<>>
    ELSE IF lo = hi THEN upper_char(s[lo])
    ELSE upper_range(s, lo, (lo + hi) \div 2) \o upper_range(s, ((lo + hi) \div 2) + 1, hi)

str_upper(s) == upper_range(s, 1, Len(s))

\* the Final_Sigma context of the capital sigma at place i of s: the nearest
\* character before it that is not case-ignorable is cased, and the nearest
\* one after it is not
cased_before(s, i) ==
    \E j \in 1 .. (i - 1) :
        /\ s[j] \notin case_ignorable
        /\ s[j] \in cased
        /\ \A k \in (j + 1) .. (i - 1) : s[k] \in case_ignorable

cased_after(s, i) ==
    \E j \in (i + 1) .. Len(s) :
        /\ s[j] \notin case_ignorable
        /\ s[j] \in cased
        /\ \A k \in (i + 1) .. (j - 1) : s[k] \in case_ignorable

final_sigma(s, i) == cased_before(s, i) /\ ~cased_after(s, i)

\* str.lower() of the character at place i of s: a capital sigma gives the
\* final small sigma in the Final_Sigma context
lower_at(s, i) ==
    IF s[i] = "U+03A3" /\ final_sigma(s, i) THEN <<"U+03C2">> ELSE lower_char(s[i])

\* str.lower(): character by character, the text taken by halves
RECURSIVE lower_range(_, _, _)
lower_range(s, lo, hi) ==
    IF lo > hi THEN <<>>
    ELSE IF lo = hi THEN lower_at(s, lo)
    ELSE lower_range(s, lo, (lo + hi) \div 2) \o lower_range(s, ((lo + hi) \div 2) + 1, hi)

str_lower(s) == lower_range(s, 1, Len(s))

-----------------------------------------------------------------------------
(* Natural numbers of any size, for the arithmetic of Python's float: a     *)
(* little-endian sequence of limbs in base 2^15 without leading zero limbs; *)
(* <<>> is 0.  The operators work on all limbs at once, or by halves, so    *)
(* that a number of two thousand bits is no deeper to evaluate than a small *)
(* one.                                                                     *)

\* limbs of 15 bits: the product of two limbs and a carry stays below 2^31
LimbBits == 3 * 5
LimbBase == 2 ^ LimbBits

\* limb i of a, 0 beyond its length
limb(a, i) == IF i \in DOMAIN a THEN a[i] ELSE 0

\* the limbs without the leading zero limbs
bn_norm(a) ==
    IF \A i \in DOMAIN a : a[i] = 0 THEN <<>>
    ELSE SubSeq(a, 1, CHOOSE i \in DOMAIN a :
                          a[i] # 0 /\ \A j \in (i + 1) .. Len(a) : a[j] = 0)

\* for 0 <= n < 2^31
bn_from_int(n) ==
    bn_norm(<<n % LimbBase, (n \div LimbBase) % LimbBase, n \div (LimbBase * LimbBase)>>)

RECURSIVE bn_to_int(_)
bn_to_int(a) ==
    IF a = <<>> THEN 0 ELSE a[1] + LimbBase * bn_to_int(Tail(a))

\* the carry into limb i of a + b: a limb below i overflows, and every limb
\* between the two passes a carry on
carry_into(a, b, i) ==
    \E j \in 1 .. (i - 1) :
        /\ limb(a, j) + limb(b, j) >= LimbBase
        /\ \A k \in (j + 1) .. (i - 1) : limb(a, k) + limb(b, k) = LimbBase - 1

\* a + b, for sequences of limbs with or without leading zero limbs
bn_add(a, b) ==
    bn_norm([i \in 1 .. (Max(Len(a), Len(b)) + 1) |->
                (limb(a, i) + limb(b, i) + (IF carry_into(a, b, i) THEN 1 ELSE 0))
                    % LimbBase])

\* the borrow from limb i of a - b
borrow_from(a, b, i) ==
    \E j \in 1 .. (i - 1) :
        /\ a[j] < limb(b, j)
        /\ \A k \in (j + 1) .. (i - 1) : a[k] = limb(b, k)

\* a - b for a >= b
bn_sub(a, b) ==
    bn_norm([i \in DOMAIN a |->
                (LimbBase + a[i] - limb(b, i) - (IF borrow_from(a, b, i) THEN 1 ELSE 0))
                    % LimbBase])

\* -1, 0 or 1 as a < b, a = b or a > b: by the length, then by the highest
\* limb that differs
bn_cmp_at(a, b, i) == IF a[i] < b[i] THEN -1 ELSE 1

bn_cmp(a, b) ==
    IF Len(a) # Len(b) THEN (IF Len(a) < Len(b) THEN -1 ELSE 1)
    ELSE IF a = b THEN 0
    ELSE bn_cmp_at(a, b, CHOOSE i \in DOMAIN a :
                             a[i] # b[i] /\ \A j \in (i + 1) .. Len(a) : a[j] = b[j])

\* a * k for 0 <= k < 2^15: the low halves of the products of the limbs, plus
\* the high halves one limb up
bn_mul_small(a, k) ==
    bn_add([i \in DOMAIN a |-> (a[i] * k) % LimbBase],
           <<0>> \o [i \in DOMAIN a |-> (a[i] * k) \div LimbBase])

bn_shift_limbs(a, q) == IF a = <<>> THEN a ELSE [i \in 1 .. q |-> 0] \o a

\* a times the limbs lo..hi of b, each at its place
RECURSIVE bn_mul_rows(_, _, _, _)
bn_mul_rows(a, b, lo, hi) ==
    IF lo = hi THEN bn_shift_limbs(bn_mul_small(a, b[lo]), lo - 1)
    ELSE bn_add(bn_mul_rows(a, b, lo, (lo + hi) \div 2),
                bn_mul_rows(a, b, ((lo + hi) \div 2) + 1, hi))

bn_mul(a, b) == IF a = <<>> \/ b = <<>> THEN <<>> ELSE bn_mul_rows(a, b, 1, Len(b))

\* quotient and remainder by d, for 0 < d < 2^15, of the limbs lo..hi of a
\* under the remainder r that the limbs above them left: the upper half
\* first, then the lower half under the remainder of the upper
bn_divmod_joined(low, top) == [q |-> low.q \o top.q, r |-> low.r]

RECURSIVE bn_divmod_seg(_, _, _, _, _)
bn_divmod_seg(a, d, lo, hi, r) ==
    IF lo = hi
    THEN [q |-> <<(r * LimbBase + a[lo]) \div d>>, r |-> (r * LimbBase + a[lo]) % d]
    ELSE CHOOSE dm \in
            {bn_divmod_joined(bn_divmod_seg(a, d, lo, (lo + hi) \div 2, top.r), top) :
                top \in {bn_divmod_seg(a, d, ((lo + hi) \div 2) + 1, hi, r)}} : TRUE

bn_divmod_normal(dm) == [q |-> bn_norm(dm.q), r |-> dm.r]

bn_divmod_small(a, d) ==
    IF a = <<>> THEN [q |-> <<>>, r |-> 0]
    ELSE bn_divmod_normal(bn_divmod_seg(a, d, 1, Len(a), 0))

\* int.bit_length() of a limb
bit_length(n) == CHOOSE k \in 0 .. LimbBits : n < 2 ^ k /\ (k = 0 \/ n >= 2 ^ (k - 1))

bn_bit_length(a) ==
    IF a = <<>> THEN 0 ELSE LimbBits * (Len(a) - 1) + bit_length(a[Len(a)])

\* a * 2^bits and a \div 2^bits
bn_shl(a, bits) == bn_shift_limbs(bn_mul_small(a, 2 ^ (bits % LimbBits)), bits \div LimbBits)

\* a \div 2^s for s < 15: the high bits of each limb, under the low bits of
\* the limb above
bn_shr_bits(a, s) ==
    bn_norm([i \in DOMAIN a |->
                (a[i] \div (2 ^ s)) + (limb(a, i + 1) % (2 ^ s)) * 2 ^ (LimbBits - s)])

bn_shr(a, bits) ==
    IF bits \div LimbBits >= Len(a) THEN <<>>
    ELSE bn_shr_bits(SubSeq(a, (bits \div LimbBits) + 1, Len(a)), bits % LimbBits)

bn_is_odd(a) == a # <<>> /\ a[1] % 2 = 1

\* the quotient q of a by 2^bits, rounded to the nearest by the bits dropped:
\* a tie goes up when more follows the dropped bits (sticky), else to even
bn_round_quotient(a, bits, q, sticky) ==
    IF bn_cmp(bn_sub(a, bn_shl(q, bits)), bn_shl(<<1>>, bits - 1))
           > (IF sticky \/ bn_is_odd(q) THEN -1 ELSE 0)
    THEN bn_add(q, <<1>>)
    ELSE q

bn_shr_round(a, bits, sticky) == bn_round_quotient(a, bits, bn_shr(a, bits), sticky)

\* a \div 2^bits rounded to the nearest, ties to even
bn_shr_half_even(a, bits) == IF bits = 0 THEN a ELSE bn_shr_round(a, bits, FALSE)

\* a * 10^k: four decimal places at a time, which fit a limb
RECURSIVE bn_mul_pow10(_, _)
bn_mul_pow10(a, k) ==
    IF a = <<>> \/ k = 0 THEN a
    ELSE IF k <= 4 THEN bn_mul_small(a, 10 ^ k)
    ELSE bn_mul_pow10(bn_mul_pow10(a, k \div 2), k - (k \div 2))

\* a \div 10^k, and whether the division left a remainder
bn_div_inexact(dm) == [q |-> dm.q, inexact |-> dm.r # 0]
bn_div_joined(once, twice) ==
    [q |-> twice.q, inexact |-> once.inexact \/ twice.inexact]

RECURSIVE bn_div_pow10(_, _)
bn_div_pow10_then(once, k) == bn_div_joined(once, bn_div_pow10(once.q, k))

bn_div_pow10(a, k) ==
    IF a = <<>> \/ k = 0 THEN [q |-> a, inexact |-> FALSE]
    ELSE IF k <= 4 THEN bn_div_inexact(bn_divmod_small(a, 10 ^ k))
    ELSE bn_div_pow10_then(bn_div_pow10(a, k \div 2), k - (k \div 2))

-----------------------------------------------------------------------------
(* Python's float: an IEEE 754 double.  A finite double is sign * m * 2^e   *)
(* with sign 1 or -1: a normal number has 2^52 <= m < 2^53 and              *)
(* -1074 <= e <= 971, a subnormal number has 0 < m < 2^52 and e = -1074,    *)
(* and 0.0 and -0.0 have m = <<>> and e = 0.  inf and -inf have the fpclass *)
(* "inf" and their sign; nan has the fpclass "nan".                         *)

\* sys.float_info.mant_dig: 52 stored bits and the implicit one
MantissaBits == 52 + 1
\* the exponent of the last bit of the least and of the largest doubles:
\* sys.float_info.min_exp - mant_dig and sys.float_info.max_exp - mant_dig
MinExponent == -1021 - MantissaBits
MaxExponent == 1024 - MantissaBits

float_signed_zero(sign) == [fpclass |-> "finite", sign |-> sign, m |-> <<>>, e |-> 0]
float_zero == float_signed_zero(1)
float_inf(sign) == [fpclass |-> "inf", sign |-> sign, m |-> <<>>, e |-> 0]
float_nan == [fpclass |-> "nan", sign |-> 1, m |-> <<>>, e |-> 0]

float_is_zero(x) == x.fpclass = "finite" /\ x.m = <<>>

\* the double sign * m * 2^e for m < 2^53: a zero keeps the sign, a number
\* beyond the largest double is an infinity
float_finite(sign, m, e) ==
    IF m = <<>> THEN float_signed_zero(sign)
    ELSE IF e > MaxExponent THEN float_inf(sign)
    ELSE [fpclass |-> "finite", sign |-> sign, m |-> m, e |-> e]

\* the double nearest to sign * (N + x) * 2^e, ties to even, where
\* 0 <= x < 1 and inexact says that x > 0; N has 55 bits or more when inexact.
\* The last bit of the result has the exponent e + len(N) - 53, or that of
\* the subnormal numbers where this is less.
float_carry(sign, rounded, e) ==
    IF bn_bit_length(rounded) > MantissaBits
    THEN float_finite(sign, bn_shr(rounded, 1), e + 1)
    ELSE float_finite(sign, rounded, e)

float_round_at(sign, N, e, inexact, last) ==
    IF last <= e
    THEN float_finite(sign, bn_shl(N, e - last), last)
    ELSE float_carry(sign, bn_shr_round(N, last - e, inexact), last)

float_round(sign, N, e, inexact) ==
    float_round_at(sign, N, e, inexact,
                   Max(MinExponent, e + bn_bit_length(N) - MantissaBits))

\* the sign of the float of an int, and of a literal: 0 gives 0.0
sign_of(n) == IF n < 0 THEN -1 ELSE 1
abs(n) == IF n < 0 THEN -n ELSE n

\* the double nearest to sign * N / 10^k: what a decimal literal, and the
\* string-to-double step of round(), give
float_of_quotient(sign, dv, e) == float_round(sign, dv.q, e, dv.inexact)

float_of_scaled(sign, N, k, t) ==
    float_of_quotient(sign, bn_div_pow10(bn_shl(N, t), k), -t)

float_of_decimal(sign, N, k) ==
    float_of_scaled(sign, N, k, Max(0, MantissaBits + 3 + 4 * k - bn_bit_length(N)))

\* float(n) for an int n
int_to_float(n) == float_round(sign_of(n), bn_from_int(abs(n)), 0, FALSE)

\* x * y: nan for a nan operand and for inf * 0; the sign of a zero and of an
\* infinity is the product of the signs
float_mul(x, y) ==
    IF x.fpclass = "nan" \/ y.fpclass = "nan" THEN float_nan
    ELSE IF x.fpclass = "inf" \/ y.fpclass = "inf"
    THEN IF float_is_zero(x) \/ float_is_zero(y)
         THEN float_nan
         ELSE float_inf(x.sign * y.sign)
    ELSE float_round(x.sign * y.sign, bn_mul(x.m, y.m), x.e + y.e, FALSE)

\* sx * a * 2^e + sy * b * 2^e, where c compares a with b: numbers that
\* cancel give 0.0
float_add_aligned(sx, a, sy, b, e, c) ==
    float_round(IF sx = sy \/ c > 0 THEN sx ELSE IF c < 0 THEN sy ELSE 1,
                IF sx = sy THEN bn_add(a, b)
                ELSE IF c >= 0 THEN bn_sub(a, b) ELSE bn_sub(b, a),
                e, FALSE)

float_add_at(x, y, e) ==
    float_add_aligned(x.sign, bn_shl(x.m, x.e - e), y.sign, bn_shl(y.m, y.e - e), e,
                      bn_cmp(bn_shl(x.m, x.e - e), bn_shl(y.m, y.e - e)))

\* x + y: nan for a nan operand and for inf + -inf; two zeros give -0.0 only
\* when both are -0.0
float_add(x, y) ==
    IF x.fpclass = "nan" \/ y.fpclass = "nan" THEN float_nan
    ELSE IF x.fpclass = "inf"
    THEN IF y.fpclass = "inf" /\ y.sign # x.sign THEN float_nan ELSE x
    ELSE IF y.fpclass = "inf" THEN y
    ELSE IF x.m = <<>>
    THEN IF y.m = <<>>
         THEN float_signed_zero(IF x.sign = -1 /\ y.sign = -1 THEN -1 ELSE 1)
         ELSE y
    ELSE IF y.m = <<>> THEN x
    ELSE float_add_at(x, y, IF x.e < y.e THEN x.e ELSE y.e)

\* the sign of the number: 0 for 0.0 and -0.0
float_sign(x) == IF float_is_zero(x) THEN 0 ELSE x.sign

\* -1, 0 or 1 as |x| < |y|, |x| = |y| or |x| > |y|, for numbers other than 0:
\* an infinity is the greatest; else by the exponent, then the mantissa
float_cmp_magnitude(x, y) ==
    IF x.fpclass # y.fpclass THEN (IF x.fpclass = "inf" THEN 1 ELSE -1)
    ELSE IF x.fpclass = "inf" THEN 0
    ELSE IF x.e # y.e THEN (IF x.e < y.e THEN -1 ELSE 1)
    ELSE bn_cmp(x.m, y.m)

\* -1, 0 or 1 as x < y, x = y or x > y, for x and y other than nan
float_cmp(x, y) ==
    IF float_sign(x) # float_sign(y)
    THEN (IF float_sign(x) < float_sign(y) THEN -1 ELSE 1)
    ELSE IF float_sign(x) = 0 THEN 0
    ELSE x.sign * float_cmp_magnitude(x, y)

\* x <= y and x == y: False when an operand is nan; -0.0 == 0.0
float_le(x, y) == x.fpclass # "nan" /\ y.fpclass # "nan" /\ float_cmp(x, y) <= 0
float_eq(x, y) == x.fpclass # "nan" /\ y.fpclass # "nan" /\ float_cmp(x, y) = 0

\* float.is_integer(): False for inf and nan
float_is_integer(x) ==
    /\ x.fpclass = "finite"
    /\ \/ x.e >= 0
       \/ /\ -x.e < MantissaBits
          /\ bn_shl(bn_shr(x.m, -x.e), -x.e) = x.m

\* the whole part of |x| for a finite x
float_floor_abs(x) == IF x.e >= 0 THEN bn_shl(x.m, x.e) ELSE bn_shr(x.m, -x.e)

\* int(x) of a finite x, which truncates
float_to_int(x) == x.sign * bn_to_int(float_floor_abs(x))

\* NDIGITS_MAX and NDIGITS_MIN of float.__round__:
\* (int)((DBL_MANT_DIG - DBL_MIN_EXP) * 0.30103) and
\* -(int)((DBL_MAX_EXP + 1) * 0.30103)
NDIGITS_MAX == ((MantissaBits + 1021) * 30103) \div 100000
NDIGITS_MIN == -(((1024 + 1) * 30103) \div 100000)

\* double_round for ndigits >= 0: the exact value of the double is rounded to
\* ndigits decimals, ties to even, and the decimal is read back
double_round_places(x, ndigits) ==
    IF x.e >= 0 THEN x
    ELSE float_of_decimal(x.sign, bn_shr_half_even(bn_mul_pow10(x.m, ndigits), -x.e),
                          ndigits)

\* the quotient q of a by 10^k, rounded to the nearest by the remainder: a
\* tie goes up when a fraction follows a (sticky), else to even
bn_round_tens(a, k, q, sticky) ==
    IF bn_cmp(bn_mul_small(bn_sub(a, bn_mul_pow10(q, k)), 2), bn_mul_pow10(<<1>>, k))
           > (IF sticky \/ bn_is_odd(q) THEN -1 ELSE 0)
    THEN bn_add(q, <<1>>)
    ELSE q

\* double_round for ndigits = -k < 0: the exact value is rounded to a
\* multiple of 10^k, ties to even, and the decimal is read back; a decimal
\* beyond the largest double gives an infinity here
double_round_tens_of(x, k, a) ==
    float_round(x.sign,
                bn_mul_pow10(bn_round_tens(a, k, bn_div_pow10(a, k).q, ~float_is_integer(x)),
                             k),
                0, FALSE)

double_round_tens(x, k) == double_round_tens_of(x, k, float_floor_abs(x))

\* round(x, ndigits) up to the OverflowError: inf, -inf and nan round to
\* themselves
float_round_decimals(x, ndigits) ==
    IF x.fpclass # "finite" \/ ndigits > NDIGITS_MAX THEN x
    ELSE IF ndigits < NDIGITS_MIN THEN float_signed_zero(x.sign)
    ELSE IF ndigits >= 0 THEN double_round_places(x, ndigits)
    ELSE double_round_tens(x, -ndigits)

-----------------------------------------------------------------------------
(* Python values: None, str, int, float.  s is the text of a str, n the     *)
(* number of an int, f the double of a float.                               *)

NoneVal == [t |-> "None", s |-> <<>>, n |-> 0, f |-> float_zero]
StrVal(s) == [t |-> "str", s |-> s, n |-> 0, f |-> float_zero]
IntVal(n) == [t |-> "int", s |-> <<>>, n |-> n, f |-> float_zero]
\* the float x
FloatOf(x) == [t |-> "float", s |-> <<>>, n |-> 0, f |-> x]
\* the float literal n/1000: FloatVal(12346) is 12.346, FloatVal(70) is 0.07
FloatVal(n) == FloatOf(float_of_decimal(sign_of(n), bn_from_int(abs(n)), 3))

\* an exception in place of a value
Raised == [t |-> "raise", s |-> <<>>, n |-> 0, f |-> float_zero]

\* a number as a float: the conversion of an int operand next to a float
as_float(v) == IF v.t = "int" THEN int_to_float(v.n) ELSE v.f

\* float.is_integer()
is_integer(v) == float_is_integer(v.f)

\* round(value, decimals) of a float: OverflowError when the rounded decimal
\* of a finite value is beyond the largest double
round_return(v, rounded) ==
    IF v.f.fpclass = "finite" /\ rounded.fpclass = "inf" THEN Raised
    ELSE FloatOf(rounded)

round_float(v, decimals) == round_return(v, float_round_decimals(v.f, decimals))

-----------------------------------------------------------------------------
(* Manipulators *)

SqlTypes == {"TEXT", "INTEGER", "REAL"}

TextKinds == {"UPPERCASE", "LOWERCASE", "TRUNCATE", "PREFIX", "SUFFIX"}
NumericKinds == {"MULTIPLY", "ADD_OFFSET"}
ManipulatorKinds == {"NULL"} \cup TextKinds \cup NumericKinds \cup {"ROUND_DECIMALS"}

\* BaseManipulator.Config.params: the keys that are set, and their values
NoParams ==
    [keys |-> {}, max_length |-> 0, prefix |-> <<>>, suffix |-> <<>>,
     multiplier |-> NoneVal, offset |-> NoneVal, decimals |-> 0]

\* dict.get(key, default)
params_get(params, key, default) ==
    IF key \in params.keys THEN params[key] ELSE default

\* BaseManipulator.create(probability, params)
create(kind, probability, params) ==
    [kind |-> kind, probability |-> probability, params |-> params]

\* create_test_manipulator attaches a TrashManipulator, a class that
\* generator_definitions.py imports from manipulators.py and manipulators.py
\* does not define.  It is taken to be a BaseManipulator that is no
\* NullManipulator, with create and should_apply as inherited; what its
\* can_apply_to_type and its apply do is not known, and each of these is
\* followed: the types it accepts are none, TEXT alone or all, and its apply
\* returns None, returns the value as passed, returns a value of its own, or
\* raises
TrashAccepts == {{}, {"TEXT"}, SqlTypes}
TrashResults == {"none", "same", "other", "raise"}
TrashBehaviours ==
    {[accepts |-> {}, result |-> "same"]}
    \cup {[accepts |-> a, result |-> r] : a \in TrashAccepts \ {{}}, r \in TrashResults}

\* the value of its own
TrashValue == StrVal(<<"#">>)

\* no TrashManipulator is asked anything
TrashIdle == trash = [accepts |-> {}, result |-> "same"]

trash_can_apply_to_type(t) == t \in trash.accepts
trash_apply(v) ==
    CASE trash.result = "none" -> NoneVal
      [] trash.result = "same" -> v
      [] trash.result = "other" -> TrashValue
      [] trash.result = "raise" -> Raised

\* a manipulator that accepts every category
can_apply_to_any_type(m, t) == TRUE

\* can_apply_to_type of each manipulator class
can_apply_to_type(m, t) ==
    CASE m.kind = "NULL" -> TRUE
      [] m.kind \in TextKinds -> t = "TEXT"
      [] m.kind \in NumericKinds -> t \in {"INTEGER", "REAL"}
      [] m.kind = "ROUND_DECIMALS" -> t = "REAL"
      [] m.kind = "TRASH" -> trash_can_apply_to_type(t)

\* the defaults of the params.get calls
DefaultMaxLength == 10
DefaultPrefix == <<"P","R","E","F","I","X","_">>
DefaultSuffix == <<"_","S","U","F","F","I","X">>
DefaultMultiplier == FloatVal(1000)
DefaultOffset == IntVal(0)
DefaultDecimals == 2

\* value[:max_length]: the first max_length characters, or all but the last
\* -max_length for a negative max_length
str_slice(s, max_length) ==
    IF max_length >= Len(s) THEN s
    ELSE IF max_length >= 0 THEN SubSeq(s, 1, max_length)
    ELSE SubSeq(s, 1, Max(0, Len(s) + max_length))

\* MultiplyManipulator.apply on a number
multiply_return(v, result) ==
    IF v.t = "int" /\ result.t = "float" /\ is_integer(result)
    THEN IntVal(float_to_int(result.f))
    ELSE result

\* int * str: the text n times, none for n <= 0
str_repeat(s, n) ==
    IF n <= 0 \/ s = <<>> THEN <<>>
    ELSE [i \in 1 .. (n * Len(s)) |-> s[((i - 1) % Len(s)) + 1]]

\* value * multiplier: a float times a str, and a number times None, raise
\* TypeError
multiply(v, multiplier) ==
    IF multiplier.t = "str"
    THEN IF v.t = "int" THEN StrVal(str_repeat(multiplier.s, v.n)) ELSE Raised
    ELSE IF multiplier.t \notin {"int", "float"} THEN Raised
    ELSE multiply_return(v, IF v.t = "int" /\ multiplier.t = "int"
                            THEN IntVal(v.n * multiplier.n)
                            ELSE FloatOf(float_mul(as_float(v), as_float(multiplier))))

\* AddOffsetManipulator.apply on a number: value + offset, which raises
\* TypeError for an offset that is no number
add_offset(v, offset) ==
    IF offset.t \notin {"int", "float"} THEN Raised
    ELSE IF v.t = "int" /\ offset.t = "int"
    THEN IntVal(v.n + offset.n)
    ELSE FloatOf(float_add(as_float(v), as_float(offset)))

\* the apply method of each manipulator class
apply(m, v) ==
    CASE m.kind = "NULL" -> NoneVal
      [] m.kind = "UPPERCASE" ->
            IF v.t = "str" THEN StrVal(str_upper(v.s)) ELSE v
      [] m.kind = "LOWERCASE" ->
            IF v.t = "str" THEN StrVal(str_lower(v.s)) ELSE v
      [] m.kind = "TRUNCATE" ->
            IF v.t = "str"
            THEN StrVal(str_slice(v.s, params_get(m.params, "max_length", DefaultMaxLength)))
            ELSE v
      [] m.kind = "PREFIX" ->
            IF v.t = "str"
            THEN StrVal(params_get(m.params, "prefix", DefaultPrefix) \o v.s)
            ELSE v
      [] m.kind = "SUFFIX" ->
            IF v.t = "str"
            THEN StrVal(v.s \o params_get(m.params, "suffix", DefaultSuffix))
            ELSE v
      [] m.kind = "MULTIPLY" ->
            IF v.t \in {"int", "float"}
            THEN multiply(v, params_get(m.params, "multiplier", DefaultMultiplier))
            ELSE v
      [] m.kind = "ADD_OFFSET" ->
            IF v.t \in {"int", "float"}
            THEN add_offset(v, params_get(m.params, "offset", DefaultOffset))
            ELSE v
      [] m.kind = "ROUND_DECIMALS" ->
            IF v.t = "float"
            THEN round_float(v, params_get(m.params, "decimals", DefaultDecimals))
            ELSE v
      [] m.kind = "TRASH" -> trash_apply(v)

should_apply_inverted(m, r) == r > m.probability
should_apply_inclusive(m, r) == r <= m.probability

\* BaseManipulator.should_apply with r the outcome of random.random()
should_apply(m, r) == r < m.probability


\* the positions 1..n in order
Positions(n) == [i \in 1 .. n |-> i]

\* applicable_manipulators of apply_manipulations, as positions of the list
applicable_manipulators(ms, t) ==
    LET Test(i) == can_apply_to_type(ms[i], t)
    IN  SelectSeq(Positions(Len(ms)), Test)

\* the applicable NULL manipulators: each one has its trigger rolled
null_candidates(ms, t) ==
    LET Test(i) == can_apply_to_type(ms[i], t) /\ ms[i].kind = "NULL"
    IN  SelectSeq(Positions(Len(ms)), Test)

\* null_manipulators of apply_manipulations: roll[i] is the outcome of
\* random.random() in the should_apply call of manipulator i
null_manipulators(ms, t, roll) ==
    LET Test(i) == /\ can_apply_to_type(ms[i], t)
                   /\ ms[i].kind = "NULL"
                   /\ should_apply(ms[i], roll[i])
    IN  SelectSeq(Positions(Len(ms)), Test)

\* the applicable non-NULL manipulators: rolled when no NULL manipulator fired
eligible_candidates(ms, t) ==
    LET Test(i) == can_apply_to_type(ms[i], t) /\ ms[i].kind # "NULL"
    IN  SelectSeq(Positions(Len(ms)), Test)

\* eligible_manipulators of apply_manipulations
eligible_manipulators(ms, t, roll) ==
    LET Test(i) == /\ can_apply_to_type(ms[i], t)
                   /\ ms[i].kind # "NULL"
                   /\ should_apply(ms[i], roll[i])
    IN  SelectSeq(Positions(Len(ms)), Test)

NoCall ==
    [called |-> FALSE, value |-> NoneVal, rolled |-> <<>>, fired |-> {}, selected |-> 0]

apply_manipulations_chained(ms, v, t, roll, k) ==
    LET RECURSIVE apply_each(_, _)
        apply_each(positions, w) ==
            IF positions = <<>> THEN w
            ELSE apply_each(Tail(positions), apply(ms[Head(positions)], w))
        nulls == SelectSeq(Positions(Len(ms)),
                    LAMBDA i : can_apply_to_type(ms[i], t) /\ ms[i].kind = "NULL"
                               /\ should_apply(ms[i], roll[i]))
        eligible == SelectSeq(Positions(Len(ms)),
                    LAMBDA i : can_apply_to_type(ms[i], t) /\ ms[i].kind # "NULL"
                               /\ should_apply(ms[i], roll[i]))
    IN  IF nulls # <<>>
        THEN [called |-> TRUE, value |-> NoneVal, rolled |-> <<>>,
              fired |-> Range(nulls), selected |-> 0]
        ELSE [called |-> TRUE, value |-> apply_each(eligible, v), rolled |-> <<>>,
              fired |-> Range(eligible),
              selected |-> IF eligible = <<>> THEN 0 ELSE eligible[k + 1]]

\* an applier that rolls every applicable manipulator before it looks at the
\* NULL list
apply_manipulations_rolling_all(ms, v, t, roll, k) ==
    LET nulls == null_manipulators(ms, t, roll)
        eligible == eligible_manipulators(ms, t, roll)
        rolled == null_candidates(ms, t) \o eligible_candidates(ms, t)
    IN  IF nulls # <<>>
        THEN [called |-> TRUE, value |-> NoneVal, rolled |-> rolled,
              fired |-> Range(nulls) \cup Range(eligible), selected |-> 0]
        ELSE IF eligible # <<>>
        THEN [called |-> TRUE, value |-> apply(ms[eligible[k + 1]], v),
              rolled |-> rolled, fired |-> Range(eligible),
              selected |-> eligible[k + 1]]
        ELSE [called |-> TRUE, value |-> v, rolled |-> rolled,
              fired |-> {}, selected |-> 0]

\* ManipulatorApplier.apply_manipulations: roll[i] is the outcome of
\* random.random() for manipulator i, k the index random.choice draws among
\* the eligible manipulators.  Returns the value, the positions whose trigger
\* was rolled (in the order of the rolls), those that fired, and the position
\* of the manipulator whose transform was applied (0: none).
apply_manipulations(ms, v, t, roll, k) ==
    LET nulls == null_manipulators(ms, t, roll)
        eligible == eligible_manipulators(ms, t, roll)
    IN  IF nulls # <<>>
        THEN [called |-> TRUE, value |-> NoneVal,
              rolled |-> null_candidates(ms, t),
              fired |-> Range(nulls), selected |-> 0]
        ELSE IF eligible # <<>>
        THEN [called |-> TRUE, value |-> apply(ms[eligible[k + 1]], v),
              rolled |-> null_candidates(ms, t) \o eligible_candidates(ms, t),
              fired |-> Range(eligible), selected |-> eligible[k + 1]]
        ELSE [called |-> TRUE, value |-> v,
              rolled |-> null_candidates(ms, t) \o eligible_candidates(ms, t),
              fired |-> {}, selected |-> 0]

\* the indices random.choice(seq) can draw
choice_indices(n) == IF n = 0 THEN {0} ELSE 0 .. (n - 1)

\* the first and the last of them
first_and_last(n) == IF n = 0 THEN {0} ELSE {0, n - 1}

-----------------------------------------------------------------------------
(* Column names: column_names.py *)

digits == <<"0","1","2","3","4","5","6","7","8","9">>

\* CONFIG.COLUMN_NAME: the probability and the intensity count hundredths,
\* the four weights count tenths
ColumnNameConfig(probability, intensity, flip, add, remove, replace) ==
    [probability |-> probability, intensity |-> intensity,
     flip |-> flip, add |-> add, remove |-> remove, replace |-> replace]

\* the defaults of COLUMN_NAME_CONFIG
DefaultColumnNameConfig == ColumnNameConfig(10, 30, 4, 3, 2, 1)

\* the gate of get_random_column_name: r is the outcome of random.random()
gate_passes_inclusive(cfg, r) == r <= cfg.probability
gate_passes(cfg, r) == r < cfg.probability

\* the early return of _modify_column_name: "not name or len(name) < 2"
returned_as_is_when_empty(name) == name = <<>>
returned_as_is(name) == name = <<>> \/ Len(name) < 2

\* a count without the factor 0.3
modification_count_without_factor(name, cfg) ==
    Max(1, (Len(name) * cfg.intensity) \div 100)

\* max(1, int(len(name) * MODIFICATION_INTENSITY * 0.3))
modification_count(name, cfg) ==
    Max(1, (Len(name) * cfg.intensity * 3) \div 1000)

\* the float of a weight counted in tenths (4 is 0.4) and of an outcome of
\* random.uniform counted in twentieths (18 is 0.9)
weight_float(w) == float_of_decimal(sign_of(w), bn_from_int(abs(w)), 1)
rand_val_float(rand_val) ==
    float_of_decimal(sign_of(rand_val), bn_from_int(abs(5 * rand_val)), 2)

\* choices of _choose_modification_type: the edit types, and the weights of a
\* configuration in their order
choices == <<"flip", "add", "remove", "replace">>
edit_weights(cfg) == <<cfg.flip, cfg.add, cfg.remove, cfg.replace>>

\* current_weight of _choose_modification_type after each pass of its loop:
\* the weights are added as floats from the left; sums holds the values so far
RECURSIVE current_weights(_, _)
current_weights(weights, sums) ==
    IF weights = <<>> THEN sums
    ELSE current_weights(Tail(weights),
            Append(sums, float_add(IF sums = <<>> THEN float_zero ELSE sums[Len(sums)],
                                   weight_float(Head(weights)))))

\* sum(weight for _, weight in choices) adds in the same order: it is the
\* current_weight after the last pass
total_of(sums) == IF sums = <<>> THEN float_zero ELSE sums[Len(sums)]

\* the pass of the loop that returns, from pass i on: the first one with
\* rand_val <= current_weight, or 0 when the loop ends without a return
RECURSIVE returning_pass(_, _, _)
returning_pass(sums, drawn, i) ==
    IF i > Len(sums) THEN 0
    ELSE IF float_le(drawn, sums[i]) THEN i
    ELSE returning_pass(sums, drawn, i + 1)

choice_returned(i) == IF i = 0 THEN "flip" ELSE choices[i]

chosen(sums, drawn) ==
    IF float_eq(total_of(sums), float_zero) THEN "flip"
    ELSE choice_returned(returning_pass(sums, drawn, 1))

\* _choose_modification_type for the weights of the configuration: rand_val is
\* the outcome of random.uniform(0, total_weight), counted in twentieths (half
\* a weight unit)
modification_type_for(weights, rand_val) ==
    chosen(current_weights(weights, <<>>), rand_val_float(rand_val))

total_weight_for(weights) == total_of(current_weights(weights, <<>>))

\* the grid of twentieths between 0 and the sum of the weights taken as
\* numbers, which is below 0 when negative weights outweigh the others
grid_between(a, b) == IF a <= b THEN (2 * a) .. (2 * b) ELSE (2 * b) .. (2 * a)
outcome_grid(weights) ==
    grid_between(0, weights[1] + weights[2] + weights[3] + weights[4])

\* x lies between a and b, whichever of the two is the greater
float_between(a, x, b) ==
    \/ float_le(a, x) /\ float_le(x, b)
    \/ float_le(b, x) /\ float_le(x, a)

\* the outcomes of random.uniform(0, total_weight) on the grid: those between
\* 0 and total_weight, which is the float sum of the weights; none is drawn
\* when the total is 0
rand_vals_upto(weights, total) ==
    IF float_eq(total, float_zero) THEN {0}
    ELSE {rand_val \in outcome_grid(weights) :
             float_between(float_zero, rand_val_float(rand_val), total)}

rand_vals_for(weights) == rand_vals_upto(weights, total_weight_for(weights))

\* the weights the model configures the edit types with, in tenths
ModelWeights == {<<4, 3, 2, 1>>, <<1, 0, 0, 0>>, <<0, 0, 0, 0>>, <<0, 3, 2, 1>>}

\* the floats and choices above for the weights of the model, computed once
total_weights_of_model == [w \in ModelWeights |-> total_weight_for(w)]
rand_vals_of_model == [w \in ModelWeights |-> rand_vals_for(w)]
modification_types_of_model ==
    [w \in ModelWeights |->
        [rand_val \in outcome_grid(w) |-> modification_type_for(w, rand_val)]]

\* total_weight of _choose_modification_type
total_weight(cfg) ==
    IF edit_weights(cfg) \in DOMAIN total_weights_of_model
    THEN total_weights_of_model[edit_weights(cfg)]
    ELSE total_weight_for(edit_weights(cfg))

\* _choose_modification_type
choose_modification_type(cfg, rand_val) ==
    IF /\ edit_weights(cfg) \in DOMAIN modification_types_of_model
       /\ rand_val \in outcome_grid(edit_weights(cfg))
    THEN modification_types_of_model[edit_weights(cfg)][rand_val]
    ELSE modification_type_for(edit_weights(cfg), rand_val)

\* the outcomes of random.uniform(0, total_weight) the model draws
rand_vals(cfg) ==
    IF edit_weights(cfg) \in DOMAIN rand_vals_of_model
    THEN rand_vals_of_model[edit_weights(cfg)]
    ELSE rand_vals_for(edit_weights(cfg))

new_char_dash(char_type, k) ==
    IF char_type = "letter" THEN ascii_lowercase[k + 1]
    ELSE IF char_type = "digit" THEN digits[k + 1]
    ELSE "-"

\* the character an edit inserts: char_type is the outcome of
\* random.choice(["letter", "digit", ...]), k the index random.choice draws
\* in string.ascii_lowercase or string.digits
new_char(char_type, k) ==
    IF char_type = "letter" THEN ascii_lowercase[k + 1]
    ELSE IF char_type = "digit" THEN digits[k + 1]
    ELSE "_"

\* list.insert(pos, c), list.pop(pos) and the adjacent swap, 0-based
list_insert(s, pos, c) == SubSeq(s, 1, pos) \o <<c>> \o SubSeq(s, pos + 1, Len(s))
\* a pop that counts positions from 1: the character before pos is removed
list_pop_from_one(s, pos) == SubSeq(s, 1, pos - 1) \o SubSeq(s, pos + 1, Len(s))
list_pop(s, pos) == SubSeq(s, 1, pos) \o SubSeq(s, pos + 2, Len(s))
\* a swap without the tuple assignment: the first character is copied over the
\* second and lost
list_swap_overwriting(s, pos) == [s EXCEPT ![pos + 2] = s[pos + 1]]

list_swap(s, pos) ==
    [i \in DOMAIN s |->
        IF i = pos + 1 THEN s[pos + 2] ELSE IF i = pos + 2 THEN s[pos + 1] ELSE s[i]]

\* an edit whose remove branch also takes a string of length 2
apply_modification_removing_from_two(name, modification_type, pos, char_type, k) ==
    IF name = <<>> THEN name
    ELSE IF modification_type = "flip" /\ Len(name) > 1 THEN list_swap(name, pos)
    ELSE IF modification_type = "add" THEN list_insert(name, pos, new_char(char_type, k))
    ELSE IF modification_type = "remove" /\ Len(name) > 1 THEN list_pop(name, pos)
    ELSE IF modification_type = "replace" /\ Len(name) > 0
    THEN [name EXCEPT ![pos + 1] = new_char(char_type, k)]
    ELSE name

\* _apply_modification: pos is the outcome of random.randint for the
\* position, char_type and k those of the random.choice calls for the character
apply_modification(name, modification_type, pos, char_type, k) ==
    IF name = <<>> THEN name
    ELSE IF modification_type = "flip" /\ Len(name) > 1 THEN list_swap(name, pos)
    ELSE IF modification_type = "add" THEN list_insert(name, pos, new_char(char_type, k))
    ELSE IF modification_type = "remove" /\ Len(name) > 2 THEN list_pop(name, pos)
    ELSE IF modification_type = "replace" /\ Len(name) > 0
    THEN [name EXCEPT ![pos + 1] = new_char(char_type, k)]
    ELSE name

\* the outcomes of the random.randint call of an edit (0 where none is made)
position_draws(name, modification_type) ==
    IF name = <<>> THEN {0}
    ELSE IF modification_type = "flip" /\ Len(name) > 1 THEN 0 .. (Len(name) - 2)
    ELSE IF modification_type = "add" THEN 0 .. Len(name)
    ELSE IF modification_type = "remove" /\ Len(name) > 2 THEN 1 .. (Len(name) - 2)
    ELSE IF modification_type = "replace" /\ Len(name) > 0 THEN 0 .. (Len(name) - 1)
    ELSE {0}

\* the outcomes of random.choice over the character types of an edit
char_type_draws(modification_type) ==
    IF modification_type = "add" THEN {"letter", "digit", "underscore"}
    ELSE IF modification_type = "replace" THEN {"letter", "digit"}
    ELSE {"none"}

\* the indices drawn in string.ascii_lowercase and string.digits: the first
\* and the last character of each
char_index_draws(char_type) ==
    IF char_type = "letter" THEN {0, Len(ascii_lowercase) - 1}
    ELSE IF char_type = "digit" THEN {0, Len(digits) - 1}
    ELSE {0}

NameIdle ==
    /\ config = DefaultColumnNameConfig
    /\ column_names = <<>>
    /\ base_name = <<>>
    /\ gate = FALSE
    /\ num_modifications = 0
    /\ modified_name = <<>>
    /\ edits = <<>>
    /\ npc = "idle"

\* _modify_column_name past its early return: the loop over the edits, each
\* element of eds holding the random outcomes of one pass
RECURSIVE modify_loop(_, _, _)
modify_loop(name, cfg, eds) ==
    IF eds = <<>> THEN name
    ELSE modify_loop(
             apply_modification(name, choose_modification_type(cfg, Head(eds).rand_val),
                                Head(eds).pos, Head(eds).char_type, Head(eds).k),
             cfg, Tail(eds))

\* _modify_column_name
modify_column_name(name, cfg, eds) ==
    IF returned_as_is(name) THEN name ELSE modify_loop(name, cfg, eds)

\* ColumnNameGenerator.get_random_column_name with the random outcomes d: the
\* index of the name draw, the outcome r of the gate, the outcomes of each edit
get_random_column_name(names, cfg, d) ==
    LET name == names[d.idx + 1]
    IN  IF gate_passes(cfg, d.r) THEN modify_column_name(name, cfg, d.eds) ELSE name

-----------------------------------------------------------------------------
(* Generators: generator_definitions.py *)

\* create_test_manipulator's list of (manipulator, inclusion probability)
test_manipulators_with_probs ==
    << <<create("NULL", 30, NoParams), 75>>,
       <<create("TRASH", 30, NoParams), 100>>,
       <<create("UPPERCASE", 10, NoParams), 100>>,
       <<create("LOWERCASE", 5, NoParams), 100>> >>

\* ManipulatorFactory.create: rolls[i] is the outcome of random.random() for
\* entry i
factory_create(manipulator_with_probs, rolls) ==
    LET kept == SelectSeq(Positions(Len(manipulator_with_probs)),
                    LAMBDA i : rolls[i] < manipulator_with_probs[i][2])
    IN  [j \in DOMAIN kept |-> manipulator_with_probs[kept[j]][1]]

\* create_test_manipulator
create_test_manipulator(rolls) == factory_create(test_manipulators_with_probs, rolls)

\* AVAILABLE_GENERATORS: the generator classes of the registry in its order,
\* each with what its get_name, get_sql_type and get_column_names return
AVAILABLE_GENERATORS ==
    <<
        \* NameGenerator
        [name |-> "name", sql_type |-> "TEXT",
         column_names |-> <<
            <<"n","a","m","e">>,
            <<"f","u","l","l","_","n","a","m","e">>,
            <<"p","e","r","s","o","n","_","n","a","m","e">>,
            <<"u","s","e","r","_","n","a","m","e">>,
            <<"c","u","s","t","o","m","e","r","_","n","a","m","e">>,
            <<"c","l","i","e","n","t","_","n","a","m","e">>,
            <<"d","i","s","p","l","a","y","_","n","a","m","e">>,
            <<"s","c","r","e","e","n","_","n","a","m","e">>,
            <<"n","e","v">>,
            <<"t","e","l","j","e","s","_","n","e","v">>,
            <<"s","z","e","m","e","l","y","_","n","e","v">>,
            <<"f","e","l","h","a","s","z","n","a","l","o","_","n","e","v">>,
            <<"u","g","y","f","e","l","_","n","e","v">>,
            <<"k","l","i","e","n","s","_","n","e","v">>,
            <<"m","e","g","j","e","l","e","n","i","t","o","_","n","e","v">> >>],
        \* FirstNameGenerator
        [name |-> "first_name", sql_type |-> "TEXT",
         column_names |-> <<
            <<"f","i","r","s","t","_","n","a","m","e">>,
            <<"g","i","v","e","n","_","n","a","m","e">>,
            <<"f","o","r","e","n","a","m","e">>,
            <<"c","h","r","i","s","t","i","a","n","_","n","a","m","e">>,
            <<"k","e","r","e","s","z","t","n","e","v">>,
            <<"e","l","s","o","_","n","e","v">>,
            <<"v","e","z","e","t","e","k","n","e","v","_","e","l","o","t","t">> >>],
        \* LastNameGenerator
        [name |-> "last_name", sql_type |-> "TEXT",
         column_names |-> <<
            <<"l","a","s","t","_","n","a","m","e">>,
            <<"s","u","r","n","a","m","e">>,
            <<"f","a","m","i","l","y","_","n","a","m","e">>,
            <<"l","a","s","t","n","a","m","e">>,
            <<"v","e","z","e","t","e","k","n","e","v">>,
            <<"c","s","a","l","a","d","i","_","n","e","v">>,
            <<"u","t","o","l","s","o","_","n","e","v">> >>],
        \* CompanyGenerator
        [name |-> "company", sql_type |-> "TEXT",
         column_names |-> <<
            <<"c","o","m","p","a","n","y">>,
            <<"c","o","r","p","o","r","a","t","i","o","n">>,
            <<"b","u","s","i","n","e","s","s">>,
            <<"e","n","t","e","r","p","r","i","s","e">>,
            <<"f","i","r","m">>,
            <<"o","r","g","a","n","i","z","a","t","i","o","n">>,
            <<"w","o","r","k","p","l","a","c","e">>,
            <<"e","m","p","l","o","y","e","r">>,
            <<"c","e","g">>,
            <<"v","a","l","l","a","l","a","t">>,
            <<"u","z","l","e","t">>,
            <<"v","a","l","l","a","l","k","o","z","a","s">>,
            <<"c","e","g","e","k">>,
            <<"s","z","e","r","v","e","z","e","t">>,
            <<"m","u","n","k","a","h","e","l","y">>,
            <<"m","u","n","k","a","a","d","o">> >>],
        \* JobTitleGenerator
        [name |-> "job_title", sql_type |-> "TEXT",
         column_names |-> <<
            <<"j","o","b","_","t","i","t","l","e">>,
            <<"p","o","s","i","t","i","o","n">>,
            <<"r","o","l","e">>,
            <<"o","c","c","u","p","a","t","i","o","n">>,
            <<"p","r","o","f","e","s","s","i","o","n">>,
            <<"t","i","t","l","e">>,
            <<"j","o","b","_","r","o","l","e">>,
            <<"w","o","r","k","_","p","o","s","i","t","i","o","n">>,
            <<"m","u","n","k","a","k","o","r">>,
            <<"p","o","z","i","c","i","o">>,
            <<"s","z","e","r","e","p">>,
            <<"f","o","g","l","a","l","k","o","z","a","s">>,
            <<"s","z","a","k","m","a">>,
            <<"b","e","o","s","z","t","a","s">>,
            <<"m","u","n","k","a","_","p","o","z","i","c","i","o">>,
            <<"a","l","l","a","s","i","_","h","e","l","y">> >>],
        \* EmailGenerator
        [name |-> "email", sql_type |-> "TEXT",
         column_names |-> <<
            <<"e","m","a","i","l">>,
            <<"e","m","a","i","l","_","a","d","d","r","e","s","s">>,
            <<"m","a","i","l">>,
            <<"e","_","m","a","i","l">>,
            <<"e","l","e","c","t","r","o","n","i","c","_","m","a","i","l">>,
            <<"c","o","n","t","a","c","t","_","e","m","a","i","l">>,
            <<"u","s","e","r","_","e","m","a","i","l">>,
            <<"e","m","a","i","l","_","c","i","m">>,
            <<"l","e","v","e","l","e","z","e","s">>,
            <<"e","l","e","k","t","r","o","n","i","k","u","s","_","l","e","v">>,
            <<"k","a","p","c","s","o","l","a","t","_","e","m","a","i","l">> >>],
        \* PhoneGenerator
        [name |-> "phone", sql_type |-> "TEXT",
         column_names |-> <<
            <<"p","h","o","n","e">>,
            <<"p","h","o","n","e","_","n","u","m","b","e","r">>,
            <<"t","e","l","e","p","h","o","n","e">>,
            <<"m","o","b","i","l","e">>,
            <<"c","e","l","l","_","p","h","o","n","e">>,
            <<"c","o","n","t","a","c","t","_","n","u","m","b","e","r">>,
            <<"t","e","l","_","n","u","m","b","e","r">>,
            <<"t","e","l","e","f","o","n">>,
            <<"t","e","l","e","f","o","n","s","z","a","m">>,
            <<"m","o","b","i","l">>,
            <<"m","o","b","i","l","_","t","e","l","e","f","o","n">>,
            <<"k","a","p","c","s","o","l","a","t","_","s","z","a","m">>,
            <<"t","e","l","_","s","z","a","m">> >>],
        \* AddressGenerator
        [name |-> "address", sql_type |-> "TEXT",
         column_names |-> <<
            <<"a","d","d","r","e","s","s">>,
            <<"s","t","r","e","e","t","_","a","d","d","r","e","s","s">>,
            <<"h","o","m","e","_","a","d","d","r","e","s","s">>,
            <<"l","o","c","a","t","i","o","n">>,
            <<"r","e","s","i","d","e","n","c","e">>,
            <<"p","o","s","t","a","l","_","a","d","d","r","e","s","s">>,
            <<"c","i","m">>,
            <<"u","t","c","a","_","c","i","m">>,
            <<"l","a","k","c","i","m">>,
            <<"h","e","l","y">>,
            <<"l","a","k","h","e","l","y">>,
            <<"p","o","s","t","a","i","_","c","i","m">> >>],
        \* CityGenerator
        [name |-> "city", sql_type |-> "TEXT",
         column_names |-> <<
            <<"c","i","t","y">>,
            <<"t","o","w","n">>,
            <<"m","u","n","i","c","i","p","a","l","i","t","y">>,
            <<"u","r","b","a","n","_","a","r","e","a">>,
            <<"s","e","t","t","l","e","m","e","n","t">>,
            <<"v","a","r","o","s">>,
            <<"t","e","l","e","p","u","l","e","s">>,
            <<"o","n","k","o","r","m","a","n","y","z","a","t">>,
            <<"v","a","r","o","s","i","_","t","e","r","u","l","e","t">> >>],
        \* CountryGenerator
        [name |-> "country", sql_type |-> "TEXT",
         column_names |-> <<
            <<"c","o","u","n","t","r","y">>,
            <<"n","a","t","i","o","n">>,
            <<"s","t","a","t","e">>,
            <<"h","o","m","e","l","a","n","d">>,
            <<"t","e","r","r","i","t","o","r","y">>,
            <<"o","r","s","z","a","g">>,
            <<"n","e","m","z","e","t">>,
            <<"a","l","l","a","m">>,
            <<"h","a","z","a">>,
            <<"t","e","r","u","l","e","t">> >>],
        \* DescriptionGenerator
        [name |-> "description", sql_type |-> "TEXT",
         column_names |-> <<
            <<"d","e","s","c","r","i","p","t","i","o","n">>,
            <<"d","e","t","a","i","l","s">>,
            <<"i","n","f","o">>,
            <<"i","n","f","o","r","m","a","t","i","o","n">>,
            <<"s","u","m","m","a","r","y">>,
            <<"n","o","t","e","s">>,
            <<"c","o","m","m","e","n","t","s">>,
            <<"r","e","m","a","r","k","s">>,
            <<"l","e","i","r","a","s">>,
            <<"r","e","s","z","l","e","t","e","k">>,
            <<"i","n","f","o","r","m","a","c","i","o">>,
            <<"o","s","s","z","e","f","o","g","l","a","l","a","s">>,
            <<"m","e","g","j","e","g","y","z","e","s","e","k">>,
            <<"k","o","m","m","e","n","t","e","k">>,
            <<"e","s","z","r","e","v","e","t","e","l","e","k">> >>],
        \* WebsiteGenerator
        [name |-> "website", sql_type |-> "TEXT",
         column_names |-> <<
            <<"w","e","b","s","i","t","e">>,
            <<"u","r","l">>,
            <<"w","e","b","_","a","d","d","r","e","s","s">>,
            <<"h","o","m","e","p","a","g","e">>,
            <<"s","i","t","e">>,
            <<"w","e","b","_","u","r","l">>,
            <<"l","i","n","k">>,
            <<"w","e","b","o","l","d","a","l">>,
            <<"u","r","l","_","c","i","m">>,
            <<"w","e","b","_","c","i","m">>,
            <<"f","o","o","l","d","a","l">>,
            <<"o","l","d","a","l">>,
            <<"l","i","n","k">> >>],
        \* UsernameGenerator
        [name |-> "username", sql_type |-> "TEXT",
         column_names |-> <<
            <<"u","s","e","r","n","a","m","e">>,
            <<"l","o","g","i","n">>,
            <<"u","s","e","r","_","i","d">>,
            <<"a","c","c","o","u","n","t","_","n","a","m","e">>,
            <<"h","a","n","d","l","e">>,
            <<"f","e","l","h","a","s","z","n","a","l","o","_","n","e","v">>,
            <<"b","e","j","e","l","e","n","t","k","e","z","e","s">>,
            <<"f","e","l","h","a","s","z","n","a","l","o","_","i","d">>,
            <<"f","i","o","k","_","n","e","v">> >>],
        \* LicensePlateGenerator
        [name |-> "license_plate", sql_type |-> "TEXT",
         column_names |-> <<
            <<"l","i","c","e","n","s","e","_","p","l","a","t","e">>,
            <<"p","l","a","t","e","_","n","u","m","b","e","r">>,
            <<"r","e","g","i","s","t","r","a","t","i","o","n">>,
            <<"c","a","r","_","p","l","a","t","e">>,
            <<"r","e","n","d","s","z","a","m">>,
            <<"a","u","t","o","_","r","e","n","d","s","z","a","m">>,
            <<"j","a","r","m","u","_","r","e","n","d","s","z","a","m">>,
            <<"r","e","g","i","s","z","t","r","a","c","i","o">> >>],
        \* ColorGenerator
        [name |-> "color", sql_type |-> "TEXT",
         column_names |-> <<
            <<"c","o","l","o","r">>,
            <<"c","o","l","o","u","r">>,
            <<"h","u","e">>,
            <<"s","h","a","d","e">>,
            <<"t","i","n","t">>,
            <<"s","z","i","n">>,
            <<"a","r","n","y","a","l","a","t">>,
            <<"t","o","n","a","l","i","t","a","s">>,
            <<"s","z","i","n","e","z","e","s">> >>],
        \* AgeGenerator
        [name |-> "age", sql_type |-> "INTEGER",
         column_names |-> <<
            <<"a","g","e">>,
            <<"y","e","a","r","s","_","o","l","d">>,
            <<"b","i","r","t","h","_","a","g","e">>,
            <<"c","u","r","r","e","n","t","_","a","g","e">>,
            <<"k","o","r">>,
            <<"e","l","e","t","k","o","r">>,
            <<"s","z","u","l","e","t","e","s","i","_","k","o","r">>,
            <<"j","e","l","e","n","l","e","g","i","_","k","o","r">> >>],
        \* EmployeeIdGenerator
        [name |-> "employee_id", sql_type |-> "INTEGER",
         column_names |-> <<
            <<"e","m","p","l","o","y","e","e","_","i","d">>,
            <<"s","t","a","f","f","_","i","d">>,
            <<"w","o","r","k","e","r","_","i","d">>,
            <<"e","m","p","_","n","u","m","b","e","r">>,
            <<"p","e","r","s","o","n","n","e","l","_","i","d">>,
            <<"t","e","a","m","_","m","e","m","b","e","r","_","i","d">>,
            <<"a","l","k","a","l","m","a","z","o","t","t","_","i","d">>,
            <<"d","o","l","g","o","z","o","i","_","i","d">>,
            <<"m","u","n","k","a","t","a","r","s","_","i","d">>,
            <<"s","z","e","m","e","l","y","z","e","t","i","_","s","z","a","m">> >>],
        \* QuantityGenerator
        [name |-> "quantity", sql_type |-> "INTEGER",
         column_names |-> <<
            <<"q","u","a","n","t","i","t","y">>,
            <<"a","m","o","u","n","t">>,
            <<"c","o","u","n","t">>,
            <<"n","u","m","b","e","r">>,
            <<"t","o","t","a","l">>,
            <<"s","u","m">>,
            <<"m","e","n","n","y","i","s","e","g">>,
            <<"o","s","s","z","e","g">>,
            <<"d","a","r","a","b">>,
            <<"s","z","a","m">>,
            <<"o","s","s","z","e","s","e","n">> >>],
        \* YearGenerator
        [name |-> "year", sql_type |-> "INTEGER",
         column_names |-> <<
            <<"y","e","a","r">>,
            <<"b","i","r","t","h","_","y","e","a","r">>,
            <<"c","r","e","a","t","i","o","n","_","y","e","a","r">>,
            <<"s","t","a","r","t","_","y","e","a","r">>,
            <<"e","v">>,
            <<"s","z","u","l","e","t","e","s","i","_","e","v">>,
            <<"l","e","t","r","e","h","o","z","a","s","_","e","v","e">>,
            <<"k","e","z","d","o","_","e","v">> >>],
        \* OrderIDGenerator
        [name |-> "order_id", sql_type |-> "INTEGER",
         column_names |-> <<
            <<"o","r","d","e","r","_","i","d">>,
            <<"o","r","d","e","r","_","n","u","m","b","e","r">>,
            <<"p","u","r","c","h","a","s","e","_","i","d">>,
            <<"t","r","a","n","s","a","c","t","i","o","n","_","i","d">>,
            <<"s","a","l","e","s","_","i","d">>,
            <<"o","r","d","e","r","_","r","e","f","e","r","e","n","c","e">>,
            <<"o","r","d","e","r","_","p","r","i","m","a","r","y","_","i","d">>,
            <<"p","u","r","c","h","a","s","e","_","r","e","f","e","r","e","n","c","e">>,
            <<"t","r","a","n","s","a","c","t","i","o","n","_","r","e","f","e","r","e","n","c","e">>,
            <<"r","e","n","d","e","l","e","s","_","i","d">>,
            <<"r","e","n","d","e","l","e","s","_","s","z","a","m">>,
            <<"v","a","s","a","r","l","a","s","_","i","d">>,
            <<"t","r","a","n","z","a","k","c","i","o","_","i","d">>,
            <<"e","l","a","d","a","s","_","i","d">>,
            <<"r","e","n","d","e","l","e","s","_","h","i","v","a","t","k","o","z","a","s">>,
            <<"r","e","n","d","e","l","e","s","_","f","o","_","i","d">> >>],
        \* BankAccountNumberGenerator
        [name |-> "bank_account_number", sql_type |-> "TEXT",
         column_names |-> <<
            <<"b","a","n","k","_","a","c","c","o","u","n","t","_","n","u","m","b","e","r">>,
            <<"a","c","c","o","u","n","t","_","n","u","m","b","e","r">>,
            <<"i","b","a","n">>,
            <<"b","a","n","k","_","a","c","c","o","u","n","t">>,
            <<"f","i","n","a","n","c","i","a","l","_","a","c","c","o","u","n","t">>,
            <<"b","a","n","k","s","z","a","m","l","a","_","s","z","a","m">>,
            <<"s","z","a","m","l","a","s","z","a","m">>,
            <<"i","b","a","n","_","s","z","a","m">>,
            <<"p","e","n","z","u","g","y","i","_","s","z","a","m","l","a">> >>],
        \* TemperatureGenerator
        [name |-> "temperature", sql_type |-> "REAL",
         column_names |-> <<
            <<"t","e","m","p","e","r","a","t","u","r","e">>,
            <<"t","e","m","p">>,
            <<"d","e","g","r","e","e","s">>,
            <<"t","h","e","r","m","a","l","_","r","e","a","d","i","n","g">>,
            <<"h","o","m","e","r","s","e","k","l","e","t">>,
            <<"f","o","k">>,
            <<"h","o","s","z","a","m">>,
            <<"t","e","r","m","i","k","u","s","_","e","r","t","e","k">> >>],
        \* LatitudeGenerator
        [name |-> "latitude", sql_type |-> "REAL",
         column_names |-> <<
            <<"l","a","t","i","t","u","d","e">>,
            <<"l","a","t">>,
            <<"n","o","r","t","h","_","s","o","u","t","h">>,
            <<"p","a","r","a","l","l","e","l">>,
            <<"s","z","e","l","e","s","s","e","g">>,
            <<"e","s","z","a","k","i","_","d","e","l","i">>,
            <<"s","z","e","l","e","s","s","e","g","i","_","f","o","k">> >>],
        \* LongitudeGenerator
        [name |-> "longitude", sql_type |-> "REAL",
         column_names |-> <<
            <<"l","o","n","g","i","t","u","d","e">>,
            <<"l","n","g">>,
            <<"l","o","n">>,
            <<"e","a","s","t","_","w","e","s","t">>,
            <<"m","e","r","i","d","i","a","n">>,
            <<"h","o","s","s","z","u","s","a","g">>,
            <<"k","e","l","e","t","i","_","n","y","u","g","a","t","i">>,
            <<"h","o","s","s","z","u","s","a","g","i","_","f","o","k">> >>] >>

\* a generator instance: its class and the manipulators BaseGenerator.__init__
\* attached to it
generator_instance(class, rolls) ==
    [class |-> class, manipulators |-> create_test_manipulator(rolls)]

get_name(g) == AVAILABLE_GENERATORS[g.class].name
get_sql_type(g) == AVAILABLE_GENERATORS[g.class].sql_type
get_column_names(g) == AVAILABLE_GENERATORS[g.class].column_names

\* the values of generate_raw_data the model follows, by the name of the
\* generator: one text for a Faker provider, the least and the greatest
\* outcome for a random.randint, and for a rounded random.uniform its lower
\* end and a value between its ends
raw_values(name) ==
    CASE name = "name" -> {StrVal(<<"K","i","s","s"," ","A","n","n","a">>)}
      [] name = "first_name" -> {StrVal(<<"A","n","n","a">>)}
      [] name = "last_name" -> {StrVal(<<"K","i","s","s">>)}
      [] name = "company" -> {StrVal(<<"K","i","s","s"," ","K","f","t",".">>)}
      [] name = "job_title" -> {StrVal(<<"E","n","g","i","n","e","e","r">>)}
      [] name = "email" -> {StrVal(<<"a","n","n","a","@","e","x","a","m","p","l","e",".","o","r","g">>)}
      [] name = "phone" -> {StrVal(<<"+","3","6"," ","3","0"," ","1","2","3"," ","4","5","6","7">>)}
      [] name = "address" -> {StrVal(<<"6","7","2","0"," ","S","z","e","g","e","d",","," ","K","o","s","s","u","t","h"," ","u","t","c","a"," ","1",".">>)}
      [] name = "city" -> {StrVal(<<"S","z","e","g","e","d">>)}
      [] name = "country" -> {StrVal(<<"H","u","n","g","a","r","y">>)}
      [] name = "description" -> {StrVal(<<"L","o","r","e","m"," ","i","p","s","u","m",".">>)}
      [] name = "website" -> {StrVal(<<"h","t","t","p","s",":","/","/","w","w","w",".","e","x","a","m","p","l","e",".","c","o","m","/">>)}
      [] name = "username" -> {StrVal(<<"a","n","n","a","4","2">>)}
      [] name = "license_plate" -> {StrVal(<<"A","B","C","-","1","2","3">>)}
      [] name = "color" -> {StrVal(<<"R","e","d">>)}
      [] name = "age" -> {IntVal(18), IntVal(90)}
      [] name = "employee_id" -> {IntVal(1000), IntVal(9999)}
      [] name = "quantity" -> {IntVal(1), IntVal(1000)}
      [] name = "year" -> {IntVal(1950), IntVal(2024)}
      [] name = "order_id" -> {IntVal(12100000), IntVal(92999999)}
      [] name = "bank_account_number" -> {StrVal(<<"G","B","4","2","A","B","C","D","1","2","3","4","5","6">>)}
      [] name = "temperature" -> {FloatVal(-10000), FloatVal(21500)}
      [] name = "latitude" -> {FloatVal(-90000), FloatVal(47498)}
      [] name = "longitude" -> {FloatVal(-180000), FloatVal(19040)}

generate_raw_data(g) == raw_values(get_name(g))

\* CONFIG.GENERATOR_WEIGHTS, counted in hundredths
TEXT_WEIGHT == 400
INTEGER_WEIGHT == 300
REAL_WEIGHT == 100

\* the float of a weight counted in hundredths (29 is 0.29)
type_weight_float(weight) == float_of_decimal(sign_of(weight), bn_from_int(abs(weight)), 2)

\* a ballot that gives every type one ticket at least
tickets_at_least_one(weight) ==
    Max(1, float_to_int(float_mul(type_weight_float(weight), int_to_float(10))))

\* int(weight * 10): the product of the floats, cut off at the point
tickets(weight) == float_to_int(float_mul(type_weight_float(weight), int_to_float(10)))

\* GENERATOR_TYPE_WEIGHTS with the three weights given
GENERATOR_TYPE_WEIGHTS(text, integer, real) ==
    [TEXT_WEIGHT |-> text, INTEGER_WEIGHT |-> integer, REAL_WEIGHT |-> real]

\* the defaults of GENERATOR_TYPE_WEIGHTS
DefaultGeneratorWeights == GENERATOR_TYPE_WEIGHTS(TEXT_WEIGHT, INTEGER_WEIGHT, REAL_WEIGHT)

\* the loop that fills weighted_types for the weights w: the type of each
\* ticket, in the order of type_weights.items()
weighted_types_of(w) ==
    [i \in 1 .. tickets(w.TEXT_WEIGHT) |-> "TEXT"]
    \o [i \in 1 .. tickets(w.INTEGER_WEIGHT) |-> "INTEGER"]
    \o [i \in 1 .. tickets(w.REAL_WEIGHT) |-> "REAL"]

\* weighted_types of get_random_generator_weighted as the type of each ticket
weighted_types ==
    [i \in 1 .. tickets(TEXT_WEIGHT) |-> "TEXT"]
    \o [i \in 1 .. tickets(INTEGER_WEIGHT) |-> "INTEGER"]
    \o [i \in 1 .. tickets(REAL_WEIGHT) |-> "REAL"]

\* get_generators_by_type, as the classes of the instances it returns
get_generators_by_type(t) ==
    SelectSeq(Positions(Len(AVAILABLE_GENERATORS)),
              LAMBDA c : c \in registered /\ AVAILABLE_GENERATORS[c].sql_type = t)

\* whether get_random_generator_weighted raises ValueError on the ticket drawn:
\* no generator of the type is registered
no_generators_found(ticket) == get_generators_by_type(weighted_types[ticket + 1]) = <<>>

\* get_random_generator_weighted with the random outcomes d: the ticket drawn
\* in weighted_types, the index drawn among the generators of the type, and
\* the outcomes of ManipulatorFactory.create for the instance returned
get_random_generator_weighted(d) ==
    LET selected_type == weighted_types[d.ticket + 1]
        generators_for_type == get_generators_by_type(selected_type)
    IN  generator_instance(generators_for_type[d.variant + 1], d.rolls)

\* no call of get_random_generator_weighted was made
NoPick ==
    [called |-> FALSE, raised |-> "none", ticket |-> 0, selected_type |-> "none",
     class |-> 0]

\* one call of get_random_generator_weighted under the weights w, with the
\* index random.choice draws in weighted_types and the index it draws among
\* the generators of the type: what was raised, the type selected and the
\* class of the generator returned (0: none)
pick(w, ticket, variant) ==
    LET ballot == weighted_types_of(w)
    IN  IF ballot = <<>>
        THEN [called |-> TRUE, raised |-> "IndexError", ticket |-> 0,
              selected_type |-> "none", class |-> 0]
        ELSE LET selected_type == ballot[ticket + 1]
                 generators_for_type == get_generators_by_type(selected_type)
             IN  IF generators_for_type = <<>>
                 THEN [called |-> TRUE, raised |-> "ValueError", ticket |-> ticket,
                       selected_type |-> selected_type, class |-> 0]
                 ELSE [called |-> TRUE, raised |-> "none", ticket |-> ticket,
                       selected_type |-> selected_type,
                       class |-> generators_for_type[variant + 1]]

\* BaseGenerator.generate_data for a raw value that generate_raw_data gave
generate_data(g, raw_value, roll, k) ==
    apply_manipulations(g.manipulators, raw_value, get_sql_type(g), roll, k).value

-----------------------------------------------------------------------------
(* Schema and rows: database_generator.py *)

\* str(n) for n >= 0
RECURSIVE int_to_str(_)
int_to_str(n) ==
    IF n < 10 THEN <<digits[n + 1]>> ELSE int_to_str(n \div 10) \o <<digits[(n % 10) + 1]>>

ID == <<"i", "d">>

\* the column definition ("id", "id", lambda: None)
id_column == [col_name |-> ID, generator_name |-> "id",
              generator |-> [class |-> 0, manipulators |-> <<>>]]

\* a retry that keeps the re-drawn name as it is
unsuffixed(name, n) == name

\* a retry whose suffix does not follow the counter: always "_1"
suffixed_with_one(name, n) == name \o <<"_", "1">>

\* the f-string of the while loop: f"{name}_{counter}"
suffixed(name, n) == name \o <<"_">> \o int_to_str(n)

\* a uniqueness test that only knows the ID column
in_used_names_id_only(name, used) == name = ID

\* the test of the while loop: col_name in used_names
in_used_names(name, used) == name \in used

\* a loop that skips no column
is_id_never(name) == FALSE

\* the test of the loop of generate_row_data: col_name == "id"
is_id(name) == name = ID

\* the column definition (col_name, generator_name, generator)
column_definition(name, g) ==
    [col_name |-> name, generator_name |-> get_name(g), generator |-> g]

\* a cell without the try/except: the exception leaves generate_row_data
append_cell_unguarded(row, produced) ==
    IF produced = Raised
    THEN [row_data |-> row, propagated |-> TRUE]
    ELSE [row_data |-> Append(row, produced), propagated |-> FALSE]

\* the try/except of generate_row_data around one cell: the row after the
\* cell, and whether the exception left generate_row_data
append_cell(row, produced) ==
    IF produced = Raised
    THEN [row_data |-> Append(row, NoneVal), propagated |-> FALSE]
    ELSE [row_data |-> Append(row, produced), propagated |-> FALSE]

\* generate_database is not running: the catalog as shipped, nothing logged
DatabaseIdle ==
    /\ registered = DOMAIN AVAILABLE_GENERATORS
    /\ generator_log = <<>>
    /\ num_tables = 0
    /\ table_index = 0
    /\ rows = <<>>

\* the weights as shipped, and no call of the selector on its own
SelectorIdle ==
    /\ generator_weights = DefaultGeneratorWeights
    /\ picked = NoPick

TableIdle ==
    /\ DatabaseIdle
    /\ SelectorIdle
    /\ pc = "idle"
    /\ num_columns = 0
    /\ column_definitions = <<>>
    /\ used_names = {}
    /\ generator = id_column.generator
    /\ col_name = <<>>
    /\ counter = 0
    /\ retries = 0
    /\ draws = <<>>
    /\ row_data = <<>>
    /\ col_index = 0
    /\ raised = {}
    /\ invoked = <<>>
    /\ rows_done = 0

-----------------------------------------------------------------------------
(* The manipulation pipeline on its own: one applier, one call *)

\* outcomes of random.random(): the least, one at a probability used below,
\* and the greatest
Draws == {0, 30, 99}
Probabilities == {0, 30, 100}

\* the parameters the manipulators of the model are configured with
ModelParams(kind) ==
    CASE kind = "TRUNCATE" -> [NoParams EXCEPT !.keys = {"max_length"}, !.max_length = 1]
      [] kind = "MULTIPLY" ->
            [NoParams EXCEPT !.keys = {"multiplier"}, !.multiplier = FloatVal(1500)]
      [] kind = "ADD_OFFSET" ->
            [NoParams EXCEPT !.keys = {"offset"}, !.offset = IntVal(5)]
      [] OTHER -> NoParams

ManipulatorPool ==
    {create(kind, p, ModelParams(kind)) : kind \in ManipulatorKinds, p \in Probabilities}

RawValues == {StrVal(<<"J", "o">>), IntVal(7), FloatVal(12346)}

BoundedSeq(S, n) == UNION {[1 .. k -> S] : k \in 0 .. n}

ManipInit ==
    /\ manipulators \in BoundedSeq(ManipulatorPool, MaxManipulators)
    /\ value \in RawValues
    /\ sql_type \in SqlTypes
    /\ outcome = NoCall
    /\ TrashIdle
    /\ NameIdle
    /\ TableIdle

\* one call of apply_manipulations(value, sql_type)
ApplyManipulations ==
    /\ ~outcome.called
    /\ \E roll \in [DOMAIN manipulators -> Draws] :
         \E k \in choice_indices(Len(eligible_manipulators(manipulators, sql_type, roll))) :
            outcome' = apply_manipulations(manipulators, value, sql_type, roll, k)
    /\ UNCHANGED <<manipulators, value, sql_type, trash>>
    /\ UNCHANGED <<nameVars, tableVars>>

ManipNext == ApplyManipulations

SpecManip == ManipInit /\ [][ManipNext]_vars

(* Claims about the manipulation pipeline *)

HasCertainNull ==
    \E i \in DOMAIN manipulators :
        manipulators[i].kind = "NULL" /\ manipulators[i].probability = 100

\* C1: when the list holds a NullManipulator with probability 1.0,
\* apply_manipulations returns None, whatever the raw value, the category,
\* the other manipulators and the random outcomes are.
C1_CertainNullReturnsNone ==
    (outcome.called /\ HasCertainNull) => outcome.value = NoneVal

\* C1 witness: a call on a list holding a certain NULL manipulator next to an
\* applicable non-NULL manipulator that is certain too
C1_Witness ==
    /\ outcome.called
    /\ HasCertainNull
    /\ \E i \in DOMAIN manipulators :
          /\ manipulators[i].kind # "NULL"
          /\ manipulators[i].probability = 100
          /\ can_apply_to_type(manipulators[i], sql_type)
          /\ apply(manipulators[i], value) # value
    /\ outcome.value = NoneVal

AllProbabilitiesZero ==
    \A i \in DOMAIN manipulators : manipulators[i].probability = 0

\* C2: when every manipulator of the list has probability 0.0,
\* apply_manipulations returns the raw value unchanged for every outcome of
\* the random draws.
C2_ZeroProbabilitiesReturnRaw ==
    (outcome.called /\ AllProbabilitiesZero) => outcome.value = value

\* C2 witness: a call on two applicable manipulators of probability 0.0, one
\* of them NULL, the other one changing the value when applied
C2_Witness ==
    /\ outcome.called
    /\ AllProbabilitiesZero
    /\ Len(manipulators) = 2
    /\ \E i, j \in DOMAIN manipulators :
          /\ manipulators[i].kind = "NULL"
          /\ manipulators[j].kind # "NULL"
          /\ can_apply_to_type(manipulators[j], sql_type)
          /\ apply(manipulators[j], value) # value
    /\ outcome.value = value

\* C3: the result of apply_manipulations is None, the raw value, or the
\* transform of the raw value by a single non-NULL manipulator of the list
\* that applies to the category and whose trigger fired; two transforms are
\* never composed.
C3_AtMostOneTransform ==
    outcome.called =>
        \/ outcome.value = NoneVal
        \/ outcome.value = value
        \/ \E i \in DOMAIN manipulators :
              /\ manipulators[i].kind # "NULL"
              /\ can_apply_to_type(manipulators[i], sql_type)
              /\ i \in outcome.fired
              /\ outcome.value = apply(manipulators[i], value)

\* C3 witness: two different non-NULL manipulators fired on one value, each
\* changing it, and the result is the transform of the selected one only
C3_Witness ==
    /\ outcome.called
    /\ outcome.selected # 0
    /\ \E i, j \in outcome.fired :
          /\ i # j
          /\ manipulators[i].kind # manipulators[j].kind
          /\ apply(manipulators[i], value) # value
          /\ apply(manipulators[j], value) # value
          /\ apply(manipulators[j], apply(manipulators[i], value))
                # apply(manipulators[i], value)
    /\ outcome.value = apply(manipulators[outcome.selected], value)
    /\ outcome.value # value

\* the list holds one manipulator, not NULL, certain to fire, that applies to
\* the category
SingleCertainManipulator ==
    /\ Len(manipulators) = 1
    /\ manipulators[1].kind # "NULL"
    /\ manipulators[1].probability = 100
    /\ can_apply_to_type(manipulators[1], sql_type)

\* C14: a list of one applicable non-NULL manipulator of probability 1.0 has
\* that manipulator applied on every call; with UppercaseManipulator on the
\* TEXT value "Jo" the result is always "JO".
C14_CertainManipulatorAlwaysApplied ==
    (outcome.called /\ SingleCertainManipulator) =>
        /\ outcome.selected = 1
        /\ outcome.value = apply(manipulators[1], value)
        /\ (manipulators[1].kind = "UPPERCASE" /\ value = StrVal(<<"J", "o">>)) =>
              outcome.value = StrVal(<<"J", "O">>)

\* C14 witness: a call with UPPERCASE of probability 1.0 alone on the TEXT
\* value "Jo"
C14_Witness ==
    /\ outcome.called
    /\ SingleCertainManipulator
    /\ manipulators[1].kind = "UPPERCASE"
    /\ sql_type = "TEXT"
    /\ value = StrVal(<<"J", "o">>)
    /\ outcome.value = StrVal(<<"J", "O">>)

\* the categories the spec lets a manipulator kind run on
categories_of(kind) ==
    IF kind \in TextKinds THEN {"TEXT"}
    ELSE IF kind \in NumericKinds THEN {"INTEGER", "REAL"}
    ELSE IF kind = "ROUND_DECIMALS" THEN {"REAL"}
    ELSE SqlTypes

\* C17: apply_manipulations never applies the transform of a manipulator that
\* rejects the category of the value, and never rolls its trigger: the text
\* manipulators run on TEXT only, MULTIPLY and ADD_OFFSET never on TEXT,
\* ROUND_DECIMALS on REAL only; without an accepted manipulator that fired the
\* value is returned as it was, unless a NULL manipulator fired.
C17_RejectedManipulatorNeverApplied ==
    outcome.called =>
        /\ \A i \in Range(outcome.rolled) \cup outcome.fired :
              sql_type \in categories_of(manipulators[i].kind)
        /\ outcome.selected # 0 =>
              /\ sql_type \in categories_of(manipulators[outcome.selected].kind)
              /\ outcome.value = apply(manipulators[outcome.selected], value)
        /\ (/\ outcome.selected = 0
            /\ \A i \in outcome.fired : manipulators[i].kind # "NULL") =>
              outcome.value = value

\* C17 witness: a text manipulator certain to fire stands before MULTIPLY in
\* the list of an INTEGER value; MULTIPLY is applied, the text manipulator is
\* neither rolled nor applied
C17_Witness ==
    /\ outcome.called
    /\ sql_type = "INTEGER"
    /\ value = IntVal(7)
    /\ Len(manipulators) = 2
    /\ manipulators[1].kind = "PREFIX"
    /\ manipulators[1].probability = 100
    /\ manipulators[2].kind = "MULTIPLY"
    /\ outcome.selected = 2
    /\ outcome.rolled = <<2>>
    /\ outcome.value = apply(manipulators[2], value)
    /\ outcome.value # value

\* a NULL manipulator fired in the call
null_fired == \E i \in outcome.fired : manipulators[i].kind = "NULL"

\* C18: the null-override step comes first: every NULL manipulator of the list
\* has its trigger rolled, before any other manipulator; when one of them
\* fires the result is None, and no other manipulator has its trigger rolled
\* or its transform applied.
C18_NullOverrideFirst ==
    outcome.called =>
        /\ \A i \in DOMAIN manipulators :
              manipulators[i].kind = "NULL" => i \in Range(outcome.rolled)
        /\ \A a, b \in DOMAIN outcome.rolled :
              (a < b /\ manipulators[outcome.rolled[b]].kind = "NULL") =>
                  manipulators[outcome.rolled[a]].kind = "NULL"
        /\ null_fired =>
              /\ outcome.value = NoneVal
              /\ outcome.selected = 0
              /\ \A i \in Range(outcome.rolled) \cup outcome.fired :
                    manipulators[i].kind = "NULL"

\* C18 witness: a NULL manipulator fires behind an UPPERCASE manipulator that
\* is certain to fire on the TEXT value; only the NULL manipulator is rolled
\* and the result is None
C18_Witness ==
    /\ outcome.called
    /\ sql_type = "TEXT"
    /\ value = StrVal(<<"J", "o">>)
    /\ Len(manipulators) = 2
    /\ manipulators[1].kind = "UPPERCASE"
    /\ manipulators[1].probability = 100
    /\ manipulators[2].kind = "NULL"
    /\ manipulators[2].probability = 30
    /\ null_fired
    /\ outcome.rolled = <<2>>
    /\ outcome.value = NoneVal

-----------------------------------------------------------------------------
(* The column-name engine on its own: one get_random_column_name call *)

ModelProbabilities == {0, 10, 100}
ModelIntensities == {0, 30, 100}
ModelConfigs ==
    {ColumnNameConfig(p, i, w[1], w[2], w[3], w[4]) :
        p \in ModelProbabilities, i \in ModelIntensities, w \in ModelWeights}

\* candidate-name lists: names of length 0, 1 and 2, and names long enough
\* for one and for two edits at full intensity
ModelNamePools ==
    { << <<>>, <<"a">>, <<"e","v">> >>,
      << <<"N","e","v">>, <<"U","s","e","r","_","i","d">> >>,
      << <<"a","g","e">> >> }

NameInit ==
    /\ manipulators = <<>>
    /\ value = NoneVal
    /\ sql_type = "TEXT"
    /\ outcome = NoCall
    /\ TrashIdle
    /\ config \in ModelConfigs
    /\ column_names \in ModelNamePools
    /\ base_name = <<>>
    /\ gate = FALSE
    /\ num_modifications = 0
    /\ modified_name = <<>>
    /\ edits = <<>>
    /\ npc = "start"
    /\ TableIdle

\* ColumnNameGenerator.get_random_column_name up to the first edit: the name
\* draw, the gate, and the early return and the edit count of
\* _modify_column_name
GetRandomColumnName ==
    /\ npc = "start"
    /\ \E idx \in choice_indices(Len(column_names)), r \in Draws :
         LET name == column_names[idx + 1]
             passed == gate_passes(config, r)
         IN  /\ base_name' = name
             /\ gate' = passed
             /\ modified_name' = name
             /\ IF passed /\ ~returned_as_is(name)
                THEN /\ num_modifications' = modification_count(name, config)
                     /\ npc' = "modify"
                ELSE /\ num_modifications' = 0
                     /\ npc' = "done"
    /\ edits' = <<>>
    /\ UNCHANGED <<config, column_names>>
    /\ UNCHANGED <<manipVars, tableVars>>

\* one pass of the loop of _modify_column_name
ModifyColumnName ==
    /\ npc = "modify"
    /\ \E rand_val \in rand_vals(config) :
         \E modification_type \in {choose_modification_type(config, rand_val)} :
             \E pos \in position_draws(modified_name, modification_type),
                char_type \in char_type_draws(modification_type) :
               \E k \in char_index_draws(char_type) :
                  /\ modified_name' =
                        apply_modification(modified_name, modification_type,
                                           pos, char_type, k)
                  /\ edits' = Append(edits, modification_type)
    /\ npc' = IF Len(edits) + 1 >= num_modifications THEN "done" ELSE "modify"
    /\ UNCHANGED <<config, column_names, base_name, gate, num_modifications>>
    /\ UNCHANGED <<manipVars, tableVars>>

NameNext == GetRandomColumnName \/ ModifyColumnName

SpecName == NameInit /\ [][NameNext]_vars

(* Claims about the column-name engine *)

\* C6: a base name of length 0 or 1 is returned unchanged by the column-name
\* mutation for every configuration and every random draw, also when the
\* modification gate passes: no edit step runs on it.
C6_ShortNamesUnchanged ==
    (npc # "start" /\ Len(base_name) < 2) =>
        /\ npc = "done"
        /\ edits = <<>>
        /\ modified_name = base_name

\* C6 witness: a name of length 1 was drawn, the gate passed, and the name
\* came back unchanged
C6_Witness ==
    /\ npc = "done"
    /\ gate
    /\ Len(base_name) = 1
    /\ config.intensity = 100
    /\ modified_name = base_name

\* C7: with modification probability 0.0 get_random_column_name returns the
\* name drawn from the generator's candidate names unchanged for every random
\* draw, and no edit step runs.
C7_ZeroProbabilityReturnsPoolName ==
    (config.probability = 0 /\ npc # "start") =>
        /\ npc = "done"
        /\ edits = <<>>
        /\ modified_name = base_name
        /\ modified_name \in Range(column_names)

\* C7 witness: a name long enough to be edited was drawn under probability
\* 0.0 and full intensity, and returned
C7_Witness ==
    /\ npc = "done"
    /\ config.probability = 0
    /\ config.intensity = 100
    /\ Len(base_name) >= 2
    /\ modified_name = base_name

EditAlphabet == Range(ascii_lowercase) \cup Range(digits) \cup {"_"}
IdentifierAlphabet == EditAlphabet \cup Range(ascii_uppercase)

\* C8: after any sequence of flip, add, remove and replace edits every
\* character of the mutated name is a character of the base name or one of
\* a-z, 0-9 and underscore; so a base name within [A-Za-z0-9_] gives a
\* mutated name within [A-Za-z0-9_].
C8_EditsStayInAlphabet ==
    /\ Range(modified_name) \subseteq Range(base_name) \cup EditAlphabet
    /\ Range(base_name) \subseteq IdentifierAlphabet =>
          Range(modified_name) \subseteq IdentifierAlphabet

\* C8 witness: an add and a replace on a base name with an upper-case letter
\* left a name holding a character the base name does not have
C8_Witness ==
    /\ npc = "done"
    /\ edits = <<"add", "replace">>
    /\ Range(modified_name) \ Range(base_name) # {}
    /\ Range(base_name) \cap Range(ascii_uppercase) # {}
    /\ Range(modified_name) \cap Range(ascii_uppercase) # {}

\* how many times character c occurs in name
occurrences(name, c) == Cardinality({i \in DOMAIN name : name[i] = c})

\* name with the characters at 0-based positions pos and pos + 1 exchanged
adjacent_swap(name, pos) ==
    [i \in DOMAIN name |->
        IF i = pos + 1 THEN name[pos + 2] ELSE IF i = pos + 2 THEN name[pos + 1] ELSE name[i]]

\* the only edit with a positive weight is flip
FlipOnly ==
    /\ config.flip > 0
    /\ config.add = 0
    /\ config.remove = 0
    /\ config.replace = 0

\* C15: with modification probability 1.0 and flip the only edit of positive
\* weight, a name of length 2 or more comes back mutated, by flips only, with
\* its length and the number of occurrences of each character kept; "age" at
\* intensity 1.0 gets exactly one adjacent swap and comes back "gae" or "aeg".
C15_FlipOnlyPermutes ==
    (npc = "done" /\ config.probability = 100 /\ FlipOnly /\ Len(base_name) >= 2) =>
        /\ gate
        /\ edits # <<>>
        /\ \A i \in DOMAIN edits : edits[i] = "flip"
        /\ Len(modified_name) = Len(base_name)
        /\ \A c \in Range(base_name) \cup Range(modified_name) :
              occurrences(modified_name, c) = occurrences(base_name, c)
        /\ (base_name = <<"a", "g", "e">> /\ config.intensity = 100) =>
              /\ Len(edits) = 1
              /\ modified_name \in {adjacent_swap(base_name, 0), adjacent_swap(base_name, 1)}
              /\ modified_name \in {<<"g", "a", "e">>, <<"a", "e", "g">>}

\* C15 witness: "age" came back "aeg" under flip-only weights at probability
\* and intensity 1.0
C15_Witness ==
    /\ npc = "done"
    /\ config.probability = 100
    /\ config.intensity = 100
    /\ FlipOnly
    /\ base_name = <<"a", "g", "e">>
    /\ modified_name = <<"a", "e", "g">>

\* max(1, floor(len(base_name) * modification_intensity * 0.3)), the
\* intensity counted in hundredths
num_edits ==
    LET n == (Len(base_name) * config.intensity * 3) \div 1000
    IN  IF n < 1 THEN 1 ELSE n

\* t is s after one edit at a position of s: an adjacent swap, an insertion
\* anywhere, a removal that spares both ends, a replacement, or no change
one_edit_of(s, t) ==
    \/ t = s
    \/ \E pos \in 0 .. (Len(s) - 2) : t = adjacent_swap(s, pos)
    \/ \E pos \in 0 .. Len(s), c \in EditAlphabet :
          t = SubSeq(s, 1, pos) \o <<c>> \o SubSeq(s, pos + 1, Len(s))
    \/ \E pos \in 1 .. (Len(s) - 2) :
          t = SubSeq(s, 1, pos) \o SubSeq(s, pos + 2, Len(s))
    \/ \E pos \in 0 .. (Len(s) - 1), c \in EditAlphabet :
          t = [s EXCEPT ![pos + 1] = c]

\* a name of length 2 or more is being mutated, or has been
mutating == npc # "start" /\ gate /\ Len(base_name) >= 2

\* C19: a mutated name of length 2 or more gets exactly
\* max(1, floor(len(base_name) * intensity * 0.3)) edit steps: the count is
\* fixed from the base name before the first edit and stays as the string
\* grows or shrinks, and each step is one edit at a position of the string as
\* it is at that step.
C19_EditCountFixedFromBaseName ==
    /\ [](mutating =>
            /\ num_modifications = num_edits
            /\ Len(edits) <= num_edits
            /\ npc = "done" <=> Len(edits) = num_edits)
    /\ [][npc = "modify" =>
            /\ Len(edits') = Len(edits) + 1
            /\ num_modifications' = num_modifications
            /\ one_edit_of(modified_name, modified_name')]_vars

\* C19 witness: "User_id" at intensity 1.0 got its two edits, both removals:
\* the second ran on a string of length 6, whose own count would be 1
C19_Witness ==
    /\ npc = "done"
    /\ gate
    /\ config.intensity = 100
    /\ base_name = <<"U", "s", "e", "r", "_", "i", "d">>
    /\ edits = <<"remove", "remove">>
    /\ Len(modified_name) = Len(base_name) - 2
    /\ Len(edits) = num_modifications

\* the configured weight of an edit type
weight_of(modification_type) ==
    CASE modification_type = "flip" -> config.flip
      [] modification_type = "add" -> config.add
      [] modification_type = "remove" -> config.remove
      [] modification_type = "replace" -> config.replace

\* C20: the edit type is drawn by weight: with all four weights 0 every edit
\* is a flip, and with a positive total no edit type of weight 0 is chosen,
\* whatever the draw, the draw 0 included.
C20_ZeroWeightNeverChosen ==
    LET total == config.flip + config.add + config.remove + config.replace
    IN  \A i \in DOMAIN edits :
           IF total = 0 THEN edits[i] = "flip" ELSE weight_of(edits[i]) > 0

\* the step is a remove edit
remove_step == npc = "modify" /\ edits' = Append(edits, "remove")

\* C21: a remove edit deletes exactly one character of the current string, at
\* an interior position: the first and the last character stay; a string of
\* length 2 or less is left as it is.
C21_RemoveSparesBothEnds ==
    [][remove_step =>
          IF Len(modified_name) <= 2
          THEN modified_name' = modified_name
          ELSE /\ Len(modified_name') = Len(modified_name) - 1
               /\ modified_name'[1] = modified_name[1]
               /\ modified_name'[Len(modified_name')] = modified_name[Len(modified_name)]
               /\ \E i \in 2 .. (Len(modified_name) - 1) :
                     modified_name' =
                        [j \in 1 .. (Len(modified_name) - 1) |->
                            IF j < i THEN modified_name[j] ELSE modified_name[j + 1]]]_vars

\* C21 witness: "Nev" had its one interior character removed and came back
\* "Nv"
C21_Witness ==
    /\ npc = "done"
    /\ base_name = <<"N", "e", "v">>
    /\ edits = <<"remove">>
    /\ modified_name = <<"N", "v">>

\* the distance between two numbers
distance(a, b) == IF a >= b THEN a - b ELSE b - a

\* C29: while a base name of length 2 or more is mutated, the string has
\* length 2 or more after every edit step, each step changes the length by
\* -1, 0 or +1, and the length differs from that of the base name by no more
\* than the number of edit steps made.
C29_LengthStaysAtLeastTwo ==
    /\ [](mutating =>
            /\ Len(modified_name) >= 2
            /\ distance(Len(modified_name), Len(base_name)) <= Len(edits))
    /\ [][npc = "modify" => distance(Len(modified_name'), Len(modified_name)) <= 1]_vars

\* C29 witness: the one edit of "ev" was a remove, which left its two
\* characters
C29_Witness ==
    /\ npc = "done"
    /\ gate
    /\ base_name = <<"e", "v">>
    /\ edits = <<"remove">>
    /\ Len(modified_name) = 2

-----------------------------------------------------------------------------
(* The schema build: generate_table_schema *)

\* the outcomes of random.randint(3, 8) the model follows
NumColumnDraws == {3, 4}
\* the outcomes of random.random() the table build follows
RollDraws == {0, 99}
\* the tickets drawn: the first and the last ticket of each type
TicketDraws ==
    {0, tickets(TEXT_WEIGHT) - 1, tickets(TEXT_WEIGHT),
     tickets(TEXT_WEIGHT) + tickets(INTEGER_WEIGHT) - 1,
     tickets(TEXT_WEIGHT) + tickets(INTEGER_WEIGHT), Len(weighted_types) - 1}

\* the least element of a non-empty set of numbers
Least(S) == CHOOSE x \in S : \A y \in S : x <= y

\* the outcomes of random.uniform the table build follows: for each edit type
\* the least outcome that selects it
type_draws(cfg) ==
    {Least(outcomes) :
        outcomes \in {{rand_val \in rand_vals(cfg) :
                          choose_modification_type(cfg, rand_val) = choice} :
                      choice \in Range(choices)} \ {{}}}

\* the random outcomes of one edit on name that the table build follows: an
\* outcome per edit type, the least position, and the first letter as the
\* character
edit_draws(name, cfg) ==
    UNION {
      {[rand_val |-> rand_val,
        pos |-> Least(position_draws(name, modification_type)),
        char_type |-> IF modification_type \in {"add", "replace"}
                      THEN "letter" ELSE "none",
        k |-> 0] : modification_type \in {choose_modification_type(cfg, rand_val)}} :
      rand_val \in type_draws(cfg)}

\* the random outcomes of n successive edits starting from name
RECURSIVE edit_sequences(_, _, _)
edit_sequences(name, cfg, n) ==
    IF n = 0 THEN {<<>>}
    ELSE UNION {
           {<<e>> \o rest : rest \in edit_sequences(modify_loop(name, cfg, <<e>>), cfg, n - 1)} :
           e \in edit_draws(name, cfg)}

\* the random outcomes of one get_random_column_name call the table build
\* follows: the first and the last candidate name, the gate passed or not,
\* and the edits above
name_draws(names, cfg) ==
    UNION {
      UNION {
        {[idx |-> idx, r |-> r, eds |-> eds] :
            eds \in IF gate_passes(cfg, r) /\ ~returned_as_is(names[idx + 1])
                    THEN edit_sequences(names[idx + 1], cfg,
                                        modification_count(names[idx + 1], cfg))
                    ELSE {<<>>}} :
        r \in RollDraws} :
      idx \in first_and_last(Len(names))}

\* the outcomes of the random.random() calls of one ManipulatorFactory.create
\* the table build follows: an entry that is certain to be included has one
factory_draws ==
    {rolls \in [DOMAIN test_manipulators_with_probs -> RollDraws] :
        \A i \in DOMAIN rolls :
            test_manipulators_with_probs[i][2] = 100 => rolls[i] = 0}

\* the random outcomes of one get_random_generator_weighted call the schema
\* build follows: the first and last ticket of each type, the first and the
\* last generator of the type, and the least roll for every entry of the
\* factory
generator_draws ==
    UNION {
      {[ticket |-> ticket, variant |-> variant, rolls |-> rolls] :
          variant \in first_and_last(Len(get_generators_by_type(weighted_types[ticket + 1]))),
          rolls \in {[i \in DOMAIN test_manipulators_with_probs |-> Least(RollDraws)]}} :
      ticket \in TicketDraws}

Init ==
    /\ manipulators = <<>>
    /\ value = NoneVal
    /\ sql_type = "TEXT"
    /\ outcome = NoCall
    /\ TrashIdle
    /\ NameIdle
    /\ pc = "schema"
    /\ num_columns = 0
    /\ column_definitions = <<>>
    /\ used_names = {}
    /\ generator = id_column.generator
    /\ col_name = <<>>
    /\ counter = 0
    /\ retries = 0
    /\ draws = <<>>
    /\ row_data = <<>>
    /\ col_index = 0
    /\ raised = {}
    /\ invoked = <<>>
    /\ rows_done = 0
    /\ DatabaseIdle
    /\ SelectorIdle

\* the random outcomes of one pass of the for loop up to the while loop: those
\* of get_random_generator_weighted, then those of get_random_column_name
column_draws ==
    UNION {
      IF no_generators_found(gd.ticket)
      THEN {[gd |-> gd, nd |-> [idx |-> 0, r |-> 0, eds |-> <<>>]]}
      ELSE {[gd |-> gd, nd |-> nd] :
              nd \in name_draws(get_column_names(get_random_generator_weighted(gd)),
                                config)} :
      gd \in generator_draws}

\* the random calls of one get_random_generator_weighted call, in the order
\* made: random.choice(weighted_types); then get_generators_by_type, which
\* instantiates every class of AVAILABLE_GENERATORS, each BaseGenerator.__init__
\* calling get_manipulators and so ManipulatorFactory.create, which calls
\* random.random() once per entry; then, unless ValueError is raised,
\* random.choice(generators_for_type)
selector_calls(gd) ==
    <<"ticket">>
    \o [i \in 1 .. (Cardinality(registered) * Len(test_manipulators_with_probs)) |->
           "inclusion"]
    \o (IF no_generators_found(gd.ticket) THEN <<>> ELSE <<"variant">>)

\* the random calls of one _choose_modification_type call: random.uniform
\* ("edit_type"), unless the total weight is 0
choose_calls(cfg) ==
    IF float_eq(total_weight(cfg), float_zero) THEN <<>> ELSE <<"edit_type">>

\* the random calls of one _apply_modification call, in the order made:
\* random.randint ("position"), then for add and replace the random.choice of
\* the character type ("char_type") and, unless the type is the underscore,
\* the random.choice of the character ("char"); an edit that is skipped makes
\* none
modification_calls(name, modification_type, char_type) ==
    IF name = <<>> THEN <<>>
    ELSE IF modification_type = "flip" /\ Len(name) > 1 THEN <<"position">>
    ELSE IF modification_type = "add"
    THEN <<"position", "char_type">>
         \o (IF char_type \in {"letter", "digit"} THEN <<"char">> ELSE <<>>)
    ELSE IF modification_type = "remove" /\ Len(name) > 2 THEN <<"position">>
    ELSE IF modification_type = "replace" /\ Len(name) > 0
    THEN <<"position", "char_type", "char">>
    ELSE <<>>

\* the random calls of the loop of _modify_column_name, each element of eds
\* holding the random outcomes of one pass
RECURSIVE modify_calls(_, _, _)
pass_calls(name, cfg, eds, modification_type) ==
    choose_calls(cfg)
    \o modification_calls(name, modification_type, Head(eds).char_type)
    \o modify_calls(
           apply_modification(name, modification_type, Head(eds).pos,
                              Head(eds).char_type, Head(eds).k),
           cfg, Tail(eds))

modify_calls(name, cfg, eds) ==
    IF eds = <<>> THEN <<>>
    ELSE pass_calls(name, cfg, eds, choose_modification_type(cfg, Head(eds).rand_val))

\* the random calls of one ColumnNameGenerator.get_random_column_name call
\* on the candidate names with the random outcomes nd, in the order made:
\* random.choice(column_names) ("name"), the random.random() of the gate
\* ("gate"), then those of the edits if _modify_column_name runs its loop
name_calls(names, cfg, nd) ==
    <<"name", "gate">>
    \o (IF gate_passes(cfg, nd.r) /\ ~returned_as_is(names[nd.idx + 1])
        THEN modify_calls(names[nd.idx + 1], cfg, nd.eds)
        ELSE <<>>)

\* used_names = set(["id"])
fresh_used_names == {ID}

\* generate_table_schema up to its loop, randint having given n: the column
\* count and the ID column
schema_begin(n) ==
    /\ pc = "schema"
    /\ num_columns' = n
    /\ column_definitions' = <<id_column>>
    /\ used_names' = fresh_used_names
    /\ pc' = "column"
    /\ draws' = <<>>
    /\ UNCHANGED <<generator, col_name, counter, retries>>
    /\ UNCHANGED <<manipVars, nameVars, rowVars>>

\* the end of a pass of the for loop: the name is kept and the column added
AddColumn(name, g) ==
    /\ used_names' = used_names \cup {name}
    /\ column_definitions' = Append(column_definitions, column_definition(name, g))
    /\ pc' = "column"

\* a pass of the for loop of generate_table_schema up to the while loop, with
\* the random outcomes d: the generator, the first name, and the column if the
\* name is free; the ValueError of get_random_generator_weighted leaves
\* generate_table_schema
for_pass(d) ==
    /\ pc = "column"
    /\ Len(column_definitions) < num_columns
    /\ IF no_generators_found(d.gd.ticket)
       THEN /\ pc' = "ValueError"
            /\ draws' = selector_calls(d.gd)
            /\ UNCHANGED <<generator, col_name, counter, retries, used_names,
                           column_definitions>>
       ELSE \E g \in {get_random_generator_weighted(d.gd)} :
              \E name \in {get_random_column_name(get_column_names(g), config, d.nd)} :
                /\ generator' = g
                /\ col_name' = name
                /\ counter' = 1
                /\ retries' = 0
                /\ draws' = selector_calls(d.gd)
                              \o name_calls(get_column_names(g), config, d.nd)
                /\ IF in_used_names(name, used_names)
                   THEN /\ pc' = "retry"
                        /\ UNCHANGED <<used_names, column_definitions>>
                   ELSE AddColumn(name, g)
    /\ UNCHANGED num_columns
    /\ UNCHANGED <<manipVars, nameVars, rowVars>>

\* a pass of the while loop with the random outcomes nd: a name drawn again,
\* with the counter as suffix
while_pass(nd) ==
    /\ pc = "retry"
    /\ \E name \in {suffixed(get_random_column_name(get_column_names(generator),
                                                     config, nd), counter)} :
           /\ col_name' = name
           /\ IF in_used_names(name, used_names)
              THEN /\ pc' = "retry"
                   /\ UNCHANGED <<used_names, column_definitions>>
              ELSE AddColumn(name, generator)
    /\ counter' = counter + 1
    /\ retries' = retries + 1
    /\ draws' = draws \o name_calls(get_column_names(generator), config, nd)
    /\ UNCHANGED <<num_columns, generator>>
    /\ UNCHANGED <<manipVars, nameVars, rowVars>>

\* the return of generate_table_schema
schema_return ==
    /\ pc = "column"
    /\ Len(column_definitions) = num_columns
    /\ pc' = "rows"
    /\ UNCHANGED <<num_columns, column_definitions, used_names, generator, col_name,
                   counter, retries, draws>>
    /\ UNCHANGED <<manipVars, nameVars, rowVars>>

BeginSchema ==
    /\ pc = "schema"
    /\ \E n \in NumColumnDraws : schema_begin(n)
    /\ UNCHANGED <<dbVars, selectorVars>>

NextColumn ==
    /\ pc = "column"
    /\ Len(column_definitions) < num_columns
    /\ \E d \in column_draws : for_pass(d)
    /\ UNCHANGED <<dbVars, selectorVars>>

RetryName ==
    /\ pc = "retry"
    /\ \E nd \in name_draws(get_column_names(generator), config) : while_pass(nd)
    /\ UNCHANGED <<dbVars, selectorVars>>

ReturnSchema ==
    /\ schema_return
    /\ UNCHANGED <<dbVars, selectorVars>>

Next ==
    \/ BeginSchema
    \/ NextColumn
    \/ RetryName
    \/ ReturnSchema

Spec == Init /\ [][Next]_vars

\* the random calls of the selector, and those made for manipulators
SelectorCalls == {"ticket", "variant"}
ManipulatorCalls == {"inclusion"}

\* C26: the random calls made for a column slot come in the order selector,
\* name, mutation: the first is the selector's, none before the first name
\* draw is made for a manipulator, and none at all is made for a manipulator
\* while the schema is built (those come with the rows).
C26_SelectorThenNameThenEdits ==
    draws # <<>> =>
        /\ draws[1] \in SelectorCalls
        /\ \A k \in DOMAIN draws :
              draws[k] = "name" => \A i \in 1 .. (k - 1) : draws[i] \notin ManipulatorCalls
        /\ \A i \in DOMAIN draws : draws[i] \notin ManipulatorCalls

\* the names of the columns of the schema so far, in order
schema_names == [i \in DOMAIN column_definitions |-> column_definitions[i].col_name]

\* C4: a schema generate_table_schema has returned for num_columns = K + 1
\* holds exactly K + 1 column definitions, the ID column first, and their names
\* are pairwise distinct; while the schema is built no name repeats either.
C4_DistinctColumnNames ==
    /\ \A i, j \in DOMAIN schema_names : i # j => schema_names[i] # schema_names[j]
    /\ pc = "rows" =>
          /\ Len(column_definitions) = num_columns
          /\ schema_names[1] = ID
          /\ Cardinality(Range(schema_names)) = (num_columns - 1) + 1

\* a returned schema of four columns whose last name collided and was retried
C4_Witness ==
    /\ pc = "rows"
    /\ num_columns = 4
    /\ Len(column_definitions) = 4
    /\ retries >= 1

\* name ends with tail
has_suffix(name, tail) ==
    /\ Len(name) >= Len(tail)
    /\ SubSeq(name, Len(name) - Len(tail) + 1, Len(name)) = tail

\* the names one get_random_column_name call of the schema build can return
drawn_names(g) ==
    {get_random_column_name(get_column_names(g), config, nd) :
        nd \in name_draws(get_column_names(g), config)}

\* C5: "id" is in use from the start of the build, so a draw of "id" is a
\* collision like any other; once a column slot is filled after k >= 1 retries
\* (its first name was in use), the name it got is a name drawn from the same
\* generator followed by "_k", k being the number of retries; a slot filled
\* without a retry has a drawn name; and no generated column is named "id".
C5_CollisionGetsCounterSuffix ==
    /\ pc \in {"column", "retry", "rows"} => ID \in used_names
    /\ \A i \in DOMAIN schema_names : i >= 2 => schema_names[i] # ID
    /\ (pc \in {"column", "rows"} /\ Len(column_definitions) >= 2) =>
          /\ col_name = schema_names[Len(column_definitions)]
          /\ counter = retries + 1
          /\ retries = 0 => col_name \in drawn_names(generator)
          /\ retries >= 1 =>
                /\ has_suffix(col_name, <<"_">> \o int_to_str(retries))
                /\ \E name \in drawn_names(generator) :
                      col_name = name \o <<"_">> \o int_to_str(retries)

\* a fourth column filled at the second retry: its generator had named the
\* second column, and the third with "_1"
C5_Witness ==
    /\ pc = "rows"
    /\ Len(column_definitions) = 4
    /\ retries = 2
    /\ has_suffix(col_name, <<"_", "2">>)
    /\ column_definitions[3].col_name = column_definitions[2].col_name \o <<"_", "1">>
    /\ col_name = column_definitions[2].col_name \o <<"_", "2">>

\* the names in use that end in "_k" for a retry k made so far
used_with_retry_suffix ==
    {u \in used_names :
        \E k \in 1 .. retries : has_suffix(u, <<"_">> \o int_to_str(k))}

\* C28: the while loop of a column slot ends whatever names are drawn: the
\* name retry k proposes ends in "_k", a name in use ends in "_k" for one k
\* at most, so every rejected retry has a name in use of its own, and the
\* retries made never outnumber the names in use.
C28_RetriesBoundedByUsedNames ==
    /\ retries <= Cardinality(used_names)
    /\ \A u \in used_names : \A j, k \in 1 .. (retries + 1) :
          (/\ has_suffix(u, <<"_">> \o int_to_str(j))
           /\ has_suffix(u, <<"_">> \o int_to_str(k))) => j = k
    /\ pc = "retry" =>
          /\ col_name \in used_names
          /\ retries >= 1 => has_suffix(col_name, <<"_">> \o int_to_str(retries))
          /\ retries <= Cardinality(used_with_retry_suffix)

\* C28 witness: the first retry of a slot was rejected: its name, ending in
\* "_1", was in use, and the loop goes on to "_2"
C28_Witness ==
    /\ pc = "retry"
    /\ retries = 1
    /\ counter = 2
    /\ has_suffix(col_name, <<"_", "1">>)
    /\ col_name \in used_names

-----------------------------------------------------------------------------
(* The rows of a table: generate_row_data on the schema of a table *)

\* the name the while loop of generate_table_schema settles on when every
\* get_random_column_name call returns name: name itself when it is free,
\* else name with "_k" for the first counter k whose name is free
settled_counter(name, used) ==
    CHOOSE k \in 1 .. Cardinality(used) :
        /\ suffixed(name, k) \notin used
        /\ \A j \in 1 .. (k - 1) : suffixed(name, j) \in used

settled_retries(name, used) == IF name \in used THEN settled_counter(name, used) ELSE 0

settled_name(name, used) ==
    IF name \in used THEN suffixed(name, settled_counter(name, used)) ELSE name

\* the column definitions generate_table_schema appends to defs for the
\* generators gs, one pass of its for loop each, when every
\* get_random_column_name call returns the first name of the generator
RECURSIVE schema_of(_, _)
schema_of(gs, defs) ==
    IF gs = <<>> THEN defs
    ELSE schema_of(Tail(gs),
            Append(defs,
                column_definition(
                    settled_name(get_column_names(Head(gs))[1],
                                 {defs[i].col_name : i \in DOMAIN defs}),
                    Head(gs))))

\* the classes the schemas of the model draw on: the first of each SQL type
\* in AVAILABLE_GENERATORS
SchemaClasses ==
    {Least({c \in DOMAIN AVAILABLE_GENERATORS : AVAILABLE_GENERATORS[c].sql_type = t}) :
        t \in SqlTypes}

\* the schemas generate_table_schema returns, by the generators of their
\* columns: the ID column, then the generated columns, each with a generator
\* instance and the name the loop settled on
generated_columns(n) ==
    {Tail(schema_of([i \in 1 .. n |-> generator_instance(cs[i], rs[i])], <<id_column>>)) :
        cs \in [1 .. n -> SchemaClasses],
        rs \in [1 .. n -> factory_draws]}

ModelSchemas ==
    UNION {{<<id_column>> \o cols : cols \in generated_columns(n - 1)} :
              n \in {Least(NumColumnDraws)}}

RowsInit ==
    /\ manipulators = <<>>
    /\ value = NoneVal
    /\ sql_type = "TEXT"
    /\ outcome = NoCall
    /\ trash \in TrashBehaviours
    /\ NameIdle
    /\ pc = "rows"
    /\ column_definitions \in ModelSchemas
    /\ num_columns = Len(column_definitions)
    /\ used_names = {column_definitions[i].col_name : i \in DOMAIN column_definitions}
    /\ generator = column_definitions[Len(column_definitions)].generator
    /\ col_name = column_definitions[Len(column_definitions)].col_name
    /\ retries = settled_retries(get_column_names(generator)[1],
                                 {column_definitions[i].col_name :
                                     i \in 1 .. (Len(column_definitions) - 1)})
    /\ counter = retries + 1
    /\ draws = <<>>
    /\ row_data = <<>>
    /\ col_index = 0
    /\ raised = {}
    /\ invoked = <<>>
    /\ rows_done = 0
    /\ DatabaseIdle
    /\ SelectorIdle

\* the random outcomes of one generate_data call of generator g: what
\* generate_raw_data gave, the rolls of the manipulators, and the index
\* random.choice drew; a call that raised, or whose null manipulator fired, drew
\* no further, and the placeholder of the ID column, a lambda, has no
\* generate_data to call: the call raises
cell_draws(g) ==
    {[raw |-> Raised, roll |-> [i \in DOMAIN g.manipulators |-> 0], k |-> 0]}
    \cup
    IF g = id_column.generator THEN {} ELSE
    UNION {
      UNION {
        {[raw |-> raw, roll |-> roll, k |-> k] :
            k \in IF null_manipulators(g.manipulators, get_sql_type(g), roll) # <<>>
                  THEN {0}
                  ELSE choice_indices(Len(eligible_manipulators(
                                            g.manipulators, get_sql_type(g), roll)))} :
        roll \in [DOMAIN g.manipulators -> RollDraws]} :
      raw \in generate_raw_data(g)}

\* a call of generate_row_data(column_definitions)
row_begin ==
    /\ pc = "rows"
    /\ row_data' = <<>>
    /\ invoked' = <<>>
    /\ col_index' = 1
    /\ pc' = "cell"
    /\ UNCHANGED <<raised, rows_done>>
    /\ UNCHANGED schemaVarsButPc
    /\ UNCHANGED <<manipVars, nameVars>>

\* a pass of the loop of generate_row_data over a column named "id"
id_cell ==
    /\ pc = "cell"
    /\ col_index <= Len(column_definitions)
    /\ is_id(column_definitions[col_index].col_name)
    /\ col_index' = col_index + 1
    /\ UNCHANGED <<row_data, raised, invoked, rows_done>>
    /\ UNCHANGED schemaVars
    /\ UNCHANGED <<manipVars, nameVars>>

\* a pass of the loop of generate_row_data over a generated column, with the
\* random outcomes cd: generate_data gives a value or raises
cell(cd) ==
    /\ pc = "cell"
    /\ col_index <= Len(column_definitions)
    /\ ~is_id(column_definitions[col_index].col_name)
    /\ LET g == column_definitions[col_index].generator
           produced == IF cd.raw = Raised THEN Raised
                       ELSE generate_data(g, cd.raw, cd.roll, cd.k)
           after == append_cell(row_data, produced)
       IN  /\ row_data' = after.row_data
           /\ raised' = IF produced = Raised
                        THEN raised \cup {<<rows_done + 1, Len(row_data) + 1>>}
                        ELSE raised
           /\ invoked' = Append(invoked, col_index)
           /\ pc' = IF after.propagated THEN "aborted" ELSE "cell"
    /\ col_index' = col_index + 1
    /\ UNCHANGED rows_done
    /\ UNCHANGED schemaVarsButPc
    /\ UNCHANGED <<manipVars, nameVars>>

\* the return of generate_row_data
row_return ==
    /\ pc = "cell"
    /\ col_index > Len(column_definitions)
    /\ rows_done' = rows_done + 1
    /\ pc' = "rows"
    /\ UNCHANGED <<row_data, col_index, raised, invoked>>
    /\ UNCHANGED schemaVarsButPc
    /\ UNCHANGED <<manipVars, nameVars>>

BeginRow ==
    /\ rows_done < MaxRowCalls
    /\ row_begin
    /\ UNCHANGED <<dbVars, selectorVars>>

SkipIdCell ==
    /\ id_cell
    /\ UNCHANGED <<dbVars, selectorVars>>

GenerateCell ==
    /\ pc = "cell"
    /\ col_index <= Len(column_definitions)
    /\ ~is_id(column_definitions[col_index].col_name)
    /\ \E cd \in cell_draws(column_definitions[col_index].generator) : cell(cd)
    /\ UNCHANGED <<dbVars, selectorVars>>

ReturnRow ==
    /\ row_return
    /\ UNCHANGED <<dbVars, selectorVars>>

RowsNext ==
    \/ BeginRow
    \/ SkipIdCell
    \/ GenerateCell
    \/ ReturnRow

SpecRows == RowsInit /\ [][RowsNext]_vars

\* the generate_row_data call under way, or else the last that returned,
\* counted in the calls of the row loop of create_table
current_row == IF pc = "cell" THEN rows_done + 1 ELSE rows_done

\* C10: in generate_row_data a cell whose generator raised is None, the
\* exception never leaves generate_row_data for the row loop of create_table,
\* the pass that caught it goes on to the next column, and the row returned
\* has one cell per column other than ID.
C10_RaisingGeneratorGivesNullCell ==
    /\ [](pc \in {"rows", "cell"})
    /\ [](\A p \in raised :
            p[1] = current_row => p[2] \in DOMAIN row_data /\ row_data[p[2]] = NoneVal)
    /\ [](pc = "cell" =>
            Len(row_data) = Cardinality({i \in 1 .. col_index - 1 : schema_names[i] # ID}))
    /\ []((pc = "rows" /\ rows_done >= 1) => Len(row_data) = Len(column_definitions) - 1)
    /\ [][raised' # raised =>
            /\ pc' = "cell"
            /\ col_index' = col_index + 1
            /\ Len(row_data') = Len(row_data) + 1
            /\ rows_done' = rows_done]_vars

\* C10 witness: the first generator raised in the first call, the call
\* returned its row, and the next call of the loop returned a row with a
\* value in every cell
C10_Witness ==
    /\ pc = "rows"
    /\ rows_done = 2
    /\ raised = {<<1, 1>>}
    /\ Len(row_data) = 2
    /\ row_data[1].t = "int"
    /\ row_data[2].t = "str"

\* the positions in column_definitions of the columns not named "id", in order
non_id_columns ==
    SelectSeq(Positions(Len(column_definitions)),
              LAMBDA i : column_definitions[i].col_name # ID)

\* the cells a generate_data call for the column at position i can leave
cells_of(i) ==
    {NoneVal} \cup
    {generate_data(column_definitions[i].generator, cd.raw, cd.roll, cd.k) :
        cd \in {d \in cell_draws(column_definitions[i].generator) : d.raw # Raised}}

\* C11: a row generate_row_data returned has one cell per column not named
\* "id", the j-th cell coming from a call of the generator of the j-th such
\* column, in the order of the definition; the placeholder of the ID column is
\* never called.
C11_OneCellPerGeneratedColumn ==
    /\ \A j \in DOMAIN invoked : column_definitions[invoked[j]].col_name # ID
    /\ (pc = "rows" /\ rows_done >= 1) =>
          /\ invoked = non_id_columns
          /\ Len(row_data) = Len(non_id_columns)
          /\ \A j \in DOMAIN row_data : row_data[j] \in cells_of(non_id_columns[j])

\* a returned row of a TEXT column after an INTEGER column, both with values
C11_Witness ==
    /\ pc = "rows"
    /\ rows_done >= 1
    /\ Len(column_definitions) = 3
    /\ get_sql_type(column_definitions[2].generator) = "INTEGER"
    /\ get_sql_type(column_definitions[3].generator) = "TEXT"
    /\ row_data[1].t = "int"
    /\ row_data[2] = StrVal(<<"K","i","s","s"," ","A","n","n","a">>)

-----------------------------------------------------------------------------
(* generate_database: the tables of a database, each built by create_table *)

\* CONFIG.MIN_TABLES, CONFIG.MAX_TABLES
MIN_TABLES == 6
MAX_TABLES == 8

\* the outcomes of random.randint(MIN_TABLES, MAX_TABLES) the model follows
TableCountDraws == {MIN_TABLES, MAX_TABLES}

\* the catalogs the model follows: AVAILABLE_GENERATORS as shipped, and with
\* every REAL generator commented out
ModelRegistries ==
    {DOMAIN AVAILABLE_GENERATORS,
     {c \in DOMAIN AVAILABLE_GENERATORS : AVAILABLE_GENERATORS[c].sql_type # "REAL"}}

\* f"table{i}"
table_name(i) == <<"t", "a", "b", "l", "e">> \o int_to_str(i)

\* the outcomes of random.randint(3, 8) generate_database is followed with
DatabaseColumnCounts == {Least(NumColumnDraws)}

\* the parameters of ResultHandler.log_generator_usage after self
log_generator_usage_parameters ==
    <<"generator_name", "generator_label", "table_name", "column_name">>

\* a call of ResultHandler.log_generator_usage with the positional arguments
\* args: Python binds them to the parameters and raises TypeError when a
\* parameter is left without one; else the tuple is appended to the log
log_generator_usage(log, args) ==
    IF Len(args) # Len(log_generator_usage_parameters)
    THEN [generator_log |-> log, raised |-> TRUE]
    ELSE [generator_log |-> Append(log, args), raised |-> FALSE]

\* the arguments create_table passes: generator_name, table_name, col_name
usage_arguments(definition, name) ==
    <<definition.generator_name, name, definition.col_name>>

\* the logging loop of create_table from position i of column_definitions on:
\* the log it leaves, and whether an exception ended it
RECURSIVE log_columns(_, _, _, _)
log_columns(log, definitions, i, name) ==
    IF i > Len(definitions) THEN [generator_log |-> log, raised |-> FALSE]
    ELSE IF definitions[i].col_name = ID THEN log_columns(log, definitions, i + 1, name)
    ELSE LET called == log_generator_usage(log, usage_arguments(definitions[i], name))
         IN  IF called.raised THEN called
             ELSE log_columns(called.generator_log, definitions, i + 1, name)

DatabaseInit ==
    /\ manipulators = <<>>
    /\ value = NoneVal
    /\ sql_type = "TEXT"
    /\ outcome = NoCall
    /\ TrashIdle
    /\ NameIdle
    /\ pc = "start"
    /\ num_columns = 0
    /\ column_definitions = <<>>
    /\ used_names = {}
    /\ generator = id_column.generator
    /\ col_name = <<>>
    /\ counter = 0
    /\ retries = 0
    /\ draws = <<>>
    /\ row_data = <<>>
    /\ col_index = 0
    /\ raised = {}
    /\ invoked = <<>>
    /\ rows_done = 0
    /\ registered \in ModelRegistries
    /\ generator_log = <<>>
    /\ num_tables = 0
    /\ table_index = 0
    /\ rows = <<>>
    /\ SelectorIdle

\* generate_database up to the first create_table call, which starts with
\* generate_table_schema
StartDatabase ==
    /\ pc = "start"
    /\ \E n \in TableCountDraws : num_tables' = n
    /\ table_index' = 1
    /\ pc' = "schema"
    /\ UNCHANGED <<registered, generator_log, rows>>
    /\ UNCHANGED <<schemaVarsButPc, rowVars, selectorVars>>
    /\ UNCHANGED <<manipVars, nameVars>>

DatabaseBeginSchema ==
    /\ pc = "schema"
    /\ \E n \in DatabaseColumnCounts : schema_begin(n)
    /\ UNCHANGED <<dbVars, selectorVars>>

DatabaseNextColumn ==
    /\ pc = "column"
    /\ Len(column_definitions) < num_columns
    /\ \E d \in column_draws : for_pass(d)
    /\ UNCHANGED <<dbVars, selectorVars>>

DatabaseRetryName ==
    /\ pc = "retry"
    /\ \E nd \in name_draws(get_column_names(generator), config) : while_pass(nd)
    /\ UNCHANGED <<dbVars, selectorVars>>

DatabaseReturnSchema ==
    /\ schema_return
    /\ UNCHANGED <<dbVars, selectorVars>>

\* the logging loop of create_table, run on the schema returned: the exception
\* of a call leaves create_table and generate_database
LogGeneratorUsage ==
    /\ pc = "rows"
    /\ LET logged == log_columns(generator_log, column_definitions, 1,
                                 table_name(table_index))
       IN  /\ generator_log' = logged.generator_log
           /\ pc' = IF logged.raised THEN "TypeError" ELSE "create"
    /\ UNCHANGED <<registered, num_tables, table_index, rows>>
    /\ UNCHANGED <<schemaVarsButPc, rowVars, selectorVars>>
    /\ UNCHANGED <<manipVars, nameVars>>

DatabaseNext ==
    \/ StartDatabase
    \/ DatabaseBeginSchema
    \/ DatabaseNextColumn
    \/ DatabaseRetryName
    \/ DatabaseReturnSchema
    \/ LogGeneratorUsage

SpecDatabase == DatabaseInit /\ [][DatabaseNext]_vars

\* C12: once the logging loop of create_table is over, the log holds one
\* record per column not named "id" of the table, with the generator, the
\* table name and the column name, and none for the ID column.
C12_OneRecordPerColumn ==
    pc \in {"TypeError", "create"} =>
        /\ Len(generator_log) = Len(non_id_columns)
        /\ \A j \in DOMAIN generator_log :
              LET record == generator_log[j]
                  definition == column_definitions[non_id_columns[j]]
              IN  /\ record[1] = definition.generator_name
                  /\ record[Len(record) - 1] = table_name(table_index)
                  /\ record[Len(record)] = definition.col_name

\* type_weights of get_random_generator_weighted
type_weights(t) ==
    CASE t = "TEXT" -> TEXT_WEIGHT
      [] t = "INTEGER" -> INTEGER_WEIGHT
      [] t = "REAL" -> REAL_WEIGHT

\* a type has a positive weight and no registered generator
misconfigured ==
    \E t \in SqlTypes : type_weights(t) > 0 /\ get_generators_by_type(t) = <<>>

\* C13: with a type of positive weight and no registered generator,
\* generate_database is rejected before it builds a table: it does not get past
\* its start other than by the error, and the error is raised before the first
\* create_table call, never during the generation of a table.
C13_RejectedAtStartup ==
    misconfigured =>
        /\ pc \in {"start", "ValueError"}
        /\ pc = "ValueError" => table_index = 0

\* CONFIG.MIN_ROWS_PER_TABLE, CONFIG.MAX_ROWS_PER_TABLE
MIN_ROWS_PER_TABLE == 6000
MAX_ROWS_PER_TABLE == 6000

\* create_table is over: it returned, or an exception left it
create_table_over == pc \in {"ValueError", "TypeError", "done"}

\* C16: a create_table call that is over has generated row_count rows, a
\* number random.randint(MIN_ROWS_PER_TABLE, MAX_ROWS_PER_TABLE) gave, and
\* handed each of them to the sink.
C16_RowCountRowsProduced ==
    (create_table_over /\ ~misconfigured) =>
        /\ pc = "done"
        /\ Len(rows) \in MIN_ROWS_PER_TABLE .. MAX_ROWS_PER_TABLE


-----------------------------------------------------------------------------
(* The weighted selector on its own: one get_random_generator_weighted call *)

\* the weights a type is configured with, in hundredths: -0.05, 0.0, 0.05,
\* 0.29 and the weight the type is shipped with
ModelTypeWeights(shipped) == {-5, 0, 5, 29, shipped}

ModelGeneratorWeights ==
    {GENERATOR_TYPE_WEIGHTS(text, integer, real) :
        text \in ModelTypeWeights(TEXT_WEIGHT),
        integer \in ModelTypeWeights(INTEGER_WEIGHT),
        real \in ModelTypeWeights(REAL_WEIGHT)}

SelectorInit ==
    /\ manipulators = <<>>
    /\ value = NoneVal
    /\ sql_type = "TEXT"
    /\ outcome = NoCall
    /\ TrashIdle
    /\ NameIdle
    /\ pc = "idle"
    /\ num_columns = 0
    /\ column_definitions = <<>>
    /\ used_names = {}
    /\ generator = id_column.generator
    /\ col_name = <<>>
    /\ counter = 0
    /\ retries = 0
    /\ draws = <<>>
    /\ row_data = <<>>
    /\ col_index = 0
    /\ raised = {}
    /\ invoked = <<>>
    /\ rows_done = 0
    /\ registered \in ModelRegistries
    /\ generator_log = <<>>
    /\ num_tables = 0
    /\ table_index = 0
    /\ rows = <<>>
    /\ generator_weights \in ModelGeneratorWeights
    /\ picked = NoPick

\* one call of get_random_generator_weighted()
GetRandomGeneratorWeighted ==
    /\ ~picked.called
    /\ \E ticket \in choice_indices(Len(weighted_types_of(generator_weights))) :
         \E variant \in choice_indices(Len(get_generators_by_type(
                            pick(generator_weights, ticket, 0).selected_type))) :
            picked' = pick(generator_weights, ticket, variant)
    /\ UNCHANGED generator_weights
    /\ UNCHANGED <<schemaVars, rowVars, dbVars>>
    /\ UNCHANGED <<manipVars, nameVars>>

SelectorNext == GetRandomGeneratorWeighted

SpecSelector == SelectorInit /\ [][SelectorNext]_vars

\* the weight the weights w give type t
weight_in(w, t) ==
    CASE t = "TEXT" -> w.TEXT_WEIGHT
      [] t = "INTEGER" -> w.INTEGER_WEIGHT
      [] t = "REAL" -> w.REAL_WEIGHT

\* the classes registered for type t
registered_variants(t) ==
    {c \in registered : AVAILABLE_GENERATORS[c].sql_type = t}

\* no weight is negative, one at least is positive, and every type of positive
\* weight has a registered generator
well_configured ==
    /\ \A t \in SqlTypes : weight_in(generator_weights, t) >= 0
    /\ \E t \in SqlTypes : weight_in(generator_weights, t) > 0
    /\ \A t \in SqlTypes :
          weight_in(generator_weights, t) > 0 => registered_variants(t) # {}

\* C22: under weights that are not negative, one at least positive (a weight
\* below 0.1 included), and a catalog with a generator for every type of
\* positive weight, the selector returns a registered generator and raises
\* nothing.
C22_WellConfiguredPickReturns ==
    (picked.called /\ well_configured) =>
        /\ picked.raised = "none"
        /\ picked.class \in registered

\* C23: the generator the selector returns has the type of the ticket drawn
\* and is one of the generators registered for that type; a type whose weight
\* is 0 is never the type drawn.
C23_PickedFromWinningType ==
    picked.called =>
        /\ picked.raised = "none" =>
              /\ picked.class \in registered_variants(picked.selected_type)
              /\ AVAILABLE_GENERATORS[picked.class].sql_type = picked.selected_type
        /\ picked.selected_type \in SqlTypes =>
              weight_in(generator_weights, picked.selected_type) > 0

\* C23 witness: with TEXT at weight 0 and the other types at their shipped
\* weights, the REAL generator was returned on a REAL ticket
C23_Witness ==
    /\ picked.called
    /\ generator_weights = GENERATOR_TYPE_WEIGHTS(0, INTEGER_WEIGHT, REAL_WEIGHT)
    /\ picked.raised = "none"
    /\ picked.selected_type = "REAL"
    /\ picked.ticket >= 30
    /\ AVAILABLE_GENERATORS[picked.class].name = "temperature"

\* the tickets type t holds in the ballot of the call
tickets_held(t) ==
    Cardinality({i \in DOMAIN weighted_types_of(generator_weights) :
                    weighted_types_of(generator_weights)[i] = t})

\* n is weight * 10 rounded to the nearest integer, a tie going either way;
\* the weight counts hundredths
nearest_to_tenfold(n, weight) ==
    /\ 100 * n - 10 * weight <= 50
    /\ 10 * weight - 100 * n <= 50

\* C24: in the ballot of a call every type holds round(weight * 10) tickets:
\* weight 0.29 gives 3 tickets, the weights 4.0, 3.0 and 1.0 give 40, 30 and
\* 10.
C24_TicketsRoundedToNearest ==
    picked.called =>
        \A t \in SqlTypes : nearest_to_tenfold(tickets_held(t), weight_in(generator_weights, t))

\* the type drawn in the call has no registered generator
winner_without_variants ==
    /\ picked.called
    /\ picked.selected_type \in SqlTypes
    /\ registered_variants(picked.selected_type) = {}

\* C25: when the type drawn has no registered generator the call fails with
\* the NoGeneratorForCategory error and returns no generator, of that type or
\* of another.
C25_NoVariantsFailsWithNoGeneratorForCategory ==
    winner_without_variants =>
        /\ picked.raised = "NoGeneratorForCategory"
        /\ picked.class = 0

====
